---- MODULE Spec2Model ----
(***************************************************************************)
(* Model of the mcp-resume file-context servers: the hardened File Access   *)
(* Library (src/src/file-operations.ts), the tool-protocol tools, the       *)
(* HTTP/API server's routes and the serverless adapter (src/api/index.js).  *)
(*                                                                          *)
(* Strings are sequences of one-character strings, so that startsWith,      *)
(* endsWith, includes, trim, path.resolve, path.relative and path.basename  *)
(* are computed on characters, the way the code computes them.  A resolved  *)
(* path is the sequence of its components (each a string); PathStr gives    *)
(* its string.  The filesystem is a function from resolved paths to nodes.  *)
(***************************************************************************)
EXTENDS Integers, Sequences, FiniteSets, TLC

VARIABLES
    fs,        \* the filesystem: resolved path -> [kind, readable]
    env,       \* the process environment: [hasKey, key] (ANTHROPIC_API_KEY)
    call,      \* the operation or request handled last
    result,    \* what it returned, threw or answered
    touched,   \* the resolved paths it handed to a filesystem call
    upstream,  \* the number of requests it sent to the upstream LLM API
    cli,       \* the command-line chat client: its object fields and the
               \* position of main() and chat()
    tasks,     \* the library calls in flight together: each one's arguments,
               \* locals and the filesystem request it is suspended on
    digest,    \* a batch operation over the files of a directory: the
               \* listing, the loop position and the text built so far
    ui         \* the page of the browser UI: isLoading and the operations
               \* of the page that wait for a response

vars == <<fs, env, call, result, touched, upstream, cli, tasks, digest, ui>>

(***************************************************************************)
(* Bounds of the model.                                                     *)
(***************************************************************************)
\* the largest number of components of an input path
MaxComps == 2

(***************************************************************************)
(* Strings that occur in the code or in the inputs.                         *)
(***************************************************************************)
Slash == "/"
S_empty == <<>>
S_dot == <<".">>
S_dotdot == <<".", ".">>
S_api == <<"a","p","i","-","r","e","s","o","u","r","c","e","s">>
S_apiSlash == S_api \o <<"/">>
S_apiOld == S_api \o <<"-","o","l","d">>
S_app == <<"a","p","p">>
S_etc == <<"e","t","c">>
S_passwd == <<"p","a","s","s","w","d">>
S_pkg == <<"p","a","c","k","a","g","e",".","j","s","o","n">>
S_resume == <<"r","e","s","u","m","e",".","m","d">>
S_docs == <<"d","o","c","s">>
S_md == <<".","m","d">>
S_moreDetails == <<"M","o","r","e"," ","d","e","t","a","i","l","s","?">>
S_readme == <<"R","E","A","D","M","E",".","m","d">>
S_git == <<".","g","i","t">>
S_directory == <<"d","i","r","e","c","t","o","r","y">>
S_noResponse == <<"N","o"," ","r","e","s","p","o","n","s","e"," ","f","r","o","m"," ","C","l","a","u","d","e">>
S_yonatan == <<"Y","o","n","a","t","a","n">>
S_will == <<"w","i","l","l"," ">>
S_fitFor == <<" ","b","e"," ","a"," ","g","o","o","d"," ","f","i","t"," ","f","o","r",":"," ">>
S_nodeModules == <<"n","o","d","e","_","m","o","d","u","l","e","s">>
S_link == <<"l","i","n","k">>

(***************************************************************************)
(* String primitives (String.prototype.startsWith / endsWith / includes /   *)
(* toLowerCase / trim), on sequences of characters.                         *)
(***************************************************************************)
StartsWith(s, t) == Len(t) <= Len(s) /\ SubSeq(s, 1, Len(t)) = t

EndsWith(s, t) == Len(t) <= Len(s) /\ SubSeq(s, Len(s) - Len(t) + 1, Len(s)) = t

Includes(s, t) == \E i \in 0..(Len(s) - Len(t)) : SubSeq(s, i + 1, i + Len(t)) = t

LowerChar(c) ==
    CASE c = "A" -> "a" [] c = "B" -> "b" [] c = "C" -> "c" [] c = "D" -> "d"
      [] c = "E" -> "e" [] c = "F" -> "f" [] c = "G" -> "g" [] c = "H" -> "h"
      [] c = "I" -> "i" [] c = "J" -> "j" [] c = "K" -> "k" [] c = "L" -> "l"
      [] c = "M" -> "m" [] c = "N" -> "n" [] c = "O" -> "o" [] c = "P" -> "p"
      [] c = "Q" -> "q" [] c = "R" -> "r" [] c = "S" -> "s" [] c = "T" -> "t"
      [] c = "U" -> "u" [] c = "V" -> "v" [] c = "W" -> "w" [] c = "X" -> "x"
      [] c = "Y" -> "y" [] c = "Z" -> "z"
      [] OTHER -> c

\* the name and the pattern compared as they are
KeepCase(s) == s

ToLowerCase(s) == [i \in 1..Len(s) |-> LowerChar(s[i])]

IsSpace(c) == c \in {" ", "\n", "\t"}

RECURSIVE TrimLeft(_)
TrimLeft(s) == IF s # <<>> /\ IsSpace(Head(s)) THEN TrimLeft(Tail(s)) ELSE s

RECURSIVE TrimRight(_)
TrimRight(s) ==
    IF s # <<>> /\ IsSpace(s[Len(s)]) THEN TrimRight(SubSeq(s, 1, Len(s) - 1)) ELSE s

Trim(s) == TrimRight(TrimLeft(s))

RECURSIVE JoinWith(_, _)
JoinWith(segs, sep) ==
    IF segs = <<>> THEN <<>>
    ELSE IF Len(segs) = 1 THEN segs[1]
    ELSE segs[1] \o sep \o JoinWith(Tail(segs), sep)

RECURSIVE SplitAcc(_, _, _)
SplitAcc(s, i, cur) ==
    IF i > Len(s) THEN <<cur>>
    ELSE IF s[i] = Slash THEN <<cur>> \o SplitAcc(s, i + 1, <<>>)
    ELSE SplitAcc(s, i + 1, Append(cur, s[i]))

\* s.split('/'): the segments between slashes, empty ones included
SplitSlash(s) == SplitAcc(s, 1, <<>>)

(***************************************************************************)
(* Node's path module (POSIX).                                              *)
(***************************************************************************)
\* process.cwd()
Cwd == <<S_app>>

IsAbsolute(s) == s # <<>> /\ s[1] = Slash

RECURSIVE NormAcc(_, _)
NormAcc(segs, acc) ==
    IF segs = <<>> THEN acc
    ELSE LET h == Head(segs) IN
         NormAcc(Tail(segs),
                 IF h = <<>> \/ h = S_dot THEN acc
                 ELSE IF h = S_dotdot
                      THEN (IF acc = <<>> THEN acc ELSE SubSeq(acc, 1, Len(acc) - 1))
                      ELSE Append(acc, h))

\* path.resolve(base, s) for an absolute base given by its components
PathResolveFrom(base, s) ==
    IF IsAbsolute(s) THEN NormAcc(SplitSlash(s), <<>>)
    ELSE NormAcc(base \o SplitSlash(s), <<>>)

\* path.resolve(s): against the working directory
PathResolve(s) == PathResolveFrom(Cwd, s)

\* the string of a resolved path
PathStr(comps) ==
    IF comps = <<>> THEN <<Slash>> ELSE <<Slash>> \o JoinWith(comps, <<Slash>>)

RECURSIVE CommonLen(_, _)
CommonLen(a, b) ==
    IF a = <<>> \/ b = <<>> \/ Head(a) # Head(b) THEN 0
    ELSE 1 + CommonLen(Tail(a), Tail(b))

\* path.relative(from, to) for two resolved paths, as a string
PathRelative(from, to) ==
    LET c == CommonLen(from, to)
        ups == [i \in 1..(Len(from) - c) |-> S_dotdot]
    IN JoinWith(ups \o SubSeq(to, c + 1, Len(to)), <<Slash>>)

RECURSIVE DropTrailingEmpty(_)
DropTrailingEmpty(segs) ==
    IF segs # <<>> /\ segs[Len(segs)] = <<>>
    THEN DropTrailingEmpty(SubSeq(segs, 1, Len(segs) - 1))
    ELSE segs

\* path.basename(s)
PathBasename(s) ==
    LET segs == DropTrailingEmpty(SplitSlash(s))
    IN IF segs = <<>> THEN <<>> ELSE segs[Len(segs)]

\* path.join(dir, name) for a resolved dir and an entry name
PathJoin(dir, name) == Append(dir, name)

(***************************************************************************)
(* The filesystem.  A node is a directory or a regular file; unreadable     *)
(* nodes fail access(R_OK), readFile and readdir with EACCES.  A file's     *)
(* content is identified with the file's own path.                          *)
(***************************************************************************)
JailDir == <<S_app, S_api>>

FsBase ==
    [dirs |-> {<<>>, <<S_app>>, JailDir, JailDir \o <<S_docs>>,
               <<S_app, S_apiOld>>, <<S_etc>>},
     files |-> {<<S_app, S_pkg>>, <<S_app, S_resume>>,
                JailDir \o <<S_resume>>, JailDir \o <<S_docs, S_resume>>,
                <<S_app, S_apiOld, S_resume>>, <<S_etc, S_passwd>>},
     others |-> {},
     unreadable |-> {}]

\* the jail also holds files named like files outside it (tests/setup.ts
\* provisions api-resources/package.json)
FsShadow ==
    [FsBase EXCEPT !.files = @ \cup {JailDir \o <<S_pkg>>, JailDir \o <<S_passwd>>}]

\* a directory and a file of the jail are not readable
FsLocked ==
    [FsShadow EXCEPT !.unreadable = {JailDir \o <<S_docs>>, JailDir \o <<S_passwd>>}]

\* the working directory has no api-resources directory
FsNoJail ==
    [dirs |-> {<<>>, <<S_app>>, <<S_app, S_apiOld>>, <<S_etc>>},
     files |-> {<<S_app, S_pkg>>, <<S_app, S_resume>>,
                <<S_app, S_apiOld, S_resume>>, <<S_etc, S_passwd>>},
     others |-> {},
     unreadable |-> {}]

\* the jail also holds a hidden directory, a node_modules directory, a file
\* with an upper-case name, a child that is neither a directory nor a
\* regular file (a symbolic link, a FIFO, a socket) and a directory nested
\* in docs, with a file of its own
FsMixed ==
    [FsBase EXCEPT
        !.dirs = @ \cup {JailDir \o <<S_git>>, JailDir \o <<S_nodeModules>>,
                         JailDir \o <<S_docs, S_docs>>},
        !.files = @ \cup {JailDir \o <<S_git, S_resume>>,
                          JailDir \o <<S_nodeModules, S_pkg>>,
                          JailDir \o <<S_readme>>,
                          JailDir \o <<S_docs, S_docs, S_pkg>>},
        !.others = {JailDir \o <<S_link>>}]

FsChoices == {FsBase, FsShadow, FsLocked, FsNoJail, FsMixed}

\* the order in which readdir reports the names of a directory
NameOrder ==
    <<S_git, S_api, S_apiOld, S_docs, S_etc, S_app, S_link, S_nodeModules,
      S_pkg, S_passwd, S_readme, S_resume>>

Exists(f, p) == p \in f.dirs \cup f.files \cup f.others

\* fs.existsSync
ExistsSync(f, p) == Exists(f, p)

\* fs.promises.access(p, R_OK): "ok" or the error code
FsAccess(f, p) ==
    IF ~Exists(f, p) THEN "ENOENT"
    ELSE IF p \in f.unreadable THEN "EACCES"
    ELSE "ok"

\* fs.promises.readFile(p): "ok" (the content is p's) or the error code
FsReadFile(f, p) ==
    IF ~Exists(f, p) THEN "ENOENT"
    ELSE IF p \in f.dirs THEN "EISDIR"
    ELSE IF p \in f.unreadable THEN "EACCES"
    ELSE "ok"

\* fs.promises.readdir(p, {withFileTypes: true}): "ok" or the error code
FsReaddir(f, p) ==
    IF ~Exists(f, p) THEN "ENOENT"
    ELSE IF p \notin f.dirs THEN "ENOTDIR"
    ELSE IF p \in f.unreadable THEN "EACCES"
    ELSE "ok"

\* fs.promises.stat(p): "ok" or the error code
FsStat(f, p) == IF ~Exists(f, p) THEN "ENOENT" ELSE "ok"

\* the Dirent names readdir reports for a directory, in order
DirEntries(f, p) == SelectSeq(NameOrder, LAMBDA n : Exists(f, Append(p, n)))

EntryIsDirectory(f, p) == p \in f.dirs
EntryIsFile(f, p) == p \in f.files

\* path.extname(name): from the last '.', unless that is the first character
RECURSIVE LastDot(_, _)
LastDot(s, i) == IF i = 0 THEN 0 ELSE IF s[i] = "." THEN i ELSE LastDot(s, i - 1)

PathExtname(name) ==
    LET d == LastDot(name, Len(name))
    IN IF d <= 1 THEN <<>> ELSE SubSeq(name, d, Len(name))

(***************************************************************************)
(* The hardened File Access Library (src/src/file-operations.ts).           *)
(* Every operation returns [status, value, touched]: status "ok" or the     *)
(* error it throws; touched, the resolved paths handed to the filesystem.   *)
(***************************************************************************)
ALLOWED_BASE_PATH == PathResolveFrom(Cwd, S_api)

AccessDenied == "AccessDenied"

validatePath(filePath) ==
    LET resolvedPath == PathResolve(filePath)
        inBase == StartsWith(PathStr(resolvedPath), PathStr(ALLOWED_BASE_PATH))
        relativePath == PathRelative(Cwd, resolvedPath)
        apiResourcePath ==
            PathResolveFrom(ALLOWED_BASE_PATH, PathBasename(filePath))
    IN IF ~inBase /\ ~StartsWith(relativePath, S_apiSlash)
       THEN IF ~StartsWith(PathStr(apiResourcePath), PathStr(ALLOWED_BASE_PATH))
            THEN [threw |-> TRUE, path |-> <<>>]
            ELSE [threw |-> FALSE, path |-> apiResourcePath]
       ELSE IF ~inBase
            THEN [threw |-> TRUE, path |-> <<>>]
            ELSE [threw |-> FALSE, path |-> resolvedPath]

Threw(code, paths) == [status |-> code, value |-> <<>>, touched |-> paths]
Returned(v, paths) == [status |-> "ok", value |-> v, touched |-> paths]

\* `x || 'api-resources'`
OrApiResources(s) == IF s = <<>> THEN S_api ELSE s

readFileContent(f, filePath) ==
    LET v == validatePath(filePath) IN
    IF v.threw THEN Threw(AccessDenied, {})
    ELSE IF FsAccess(f, v.path) # "ok" THEN Threw(FsAccess(f, v.path), {v.path})
    ELSE IF FsReadFile(f, v.path) # "ok" THEN Threw(FsReadFile(f, v.path), {v.path})
    ELSE Returned([content |-> v.path], {v.path})

ListEntry(f, dir, name) ==
    [name |-> name,
     type |-> IF EntryIsDirectory(f, Append(dir, name)) THEN "directory" ELSE "file",
     path |-> PathJoin(dir, name)]

listDirectory(f, dirPath) ==
    LET v == validatePath(OrApiResources(dirPath)) IN
    IF v.threw THEN Threw(AccessDenied, {})
    ELSE IF FsAccess(f, v.path) # "ok" THEN Threw(FsAccess(f, v.path), {v.path})
    ELSE IF FsReaddir(f, v.path) # "ok" THEN Threw(FsReaddir(f, v.path), {v.path})
    ELSE LET names == DirEntries(f, v.path)
         IN Returned([i \in 1..Len(names) |-> ListEntry(f, v.path, names[i])], {v.path})

\* searchFiles.search: the matches below currentPath and the directories read
RECURSIVE search(_, _, _)
RECURSIVE searchEntries(_, _, _, _)
searchEntries(f, dir, names, pattern) ==
    IF names = <<>> THEN [results |-> <<>>, touched |-> {}]
    ELSE LET name == Head(names)
             entryPath == PathJoin(dir, name)
             rest == searchEntries(f, dir, Tail(names), pattern)
         IN IF EntryIsDirectory(f, entryPath) /\ ~StartsWith(name, S_dot)
            THEN LET sub == search(f, entryPath, pattern)
                 IN [results |-> sub.results \o rest.results,
                     touched |-> sub.touched \cup rest.touched]
            ELSE IF EntryIsFile(f, entryPath)
                    /\ Includes(ToLowerCase(name), ToLowerCase(pattern))
                 THEN [results |-> <<entryPath>> \o rest.results,
                       touched |-> rest.touched]
                 ELSE rest

search(f, currentPath, pattern) ==
    IF FsReaddir(f, currentPath) # "ok"
    THEN [results |-> <<>>, touched |-> {currentPath}]
    ELSE LET r == searchEntries(f, currentPath, DirEntries(f, currentPath), pattern)
         IN [results |-> r.results, touched |-> r.touched \cup {currentPath}]

\* searchFiles without the try around validatePath and the walk
searchFilesNoCatch(f, rootPath, pattern) ==
    LET v == validatePath(OrApiResources(rootPath)) IN
    IF v.threw THEN Threw(AccessDenied, {})
    ELSE LET r == search(f, v.path, pattern) IN Returned(r.results, r.touched)

searchFiles(f, rootPath, pattern) ==
    LET v == validatePath(OrApiResources(rootPath)) IN
    IF v.threw THEN Returned(<<>>, {})
    ELSE LET r == search(f, v.path, pattern) IN Returned(r.results, r.touched)

\* the number of files among items whose extension (or 'no-extension') is ext
ExtKey(name) ==
    LET e == ToLowerCase(PathExtname(name))
    IN IF e = <<>> THEN <<"n","o","-","e","x","t","e","n","s","i","o","n">> ELSE e

analyzeFolder(f, folderPath) ==
    LET v == validatePath(OrApiResources(folderPath)) IN
    IF v.threw THEN Threw(AccessDenied, {})
    ELSE IF FsAccess(f, v.path) # "ok" THEN Threw(FsAccess(f, v.path), {v.path})
    ELSE IF FsStat(f, v.path) # "ok" THEN Threw(FsStat(f, v.path), {v.path})
    ELSE IF ~EntryIsDirectory(f, v.path) THEN Threw("not a directory", {v.path})
    ELSE LET l == listDirectory(f, PathStr(v.path)) IN
         IF l.status # "ok" THEN Threw(l.status, l.touched \cup {v.path})
         ELSE LET items == l.value
                  fileIdx == {i \in 1..Len(items) : items[i].type = "file"}
                  dirIdx == {i \in 1..Len(items) : items[i].type = "directory"}
                  exts == {ExtKey(items[i].name) : i \in fileIdx}
              IN Returned([path |-> v.path,
                           totalItems |-> Len(items),
                           files |-> Cardinality(fileIdx),
                           directories |-> Cardinality(dirIdx),
                           fileTypes |-> [e \in exts |->
                               Cardinality({i \in fileIdx : ExtKey(items[i].name) = e})],
                           structure |-> items],
                          l.touched \cup {v.path})

summarizeFile(f, filePath) ==
    LET v == validatePath(filePath) IN
    IF v.threw THEN Threw(AccessDenied, {})
    ELSE IF FsAccess(f, v.path) # "ok" THEN Threw(FsAccess(f, v.path), {v.path})
    ELSE IF FsStat(f, v.path) # "ok" THEN Threw(FsStat(f, v.path), {v.path})
    ELSE IF FsReadFile(f, v.path) # "ok" THEN Threw(FsReadFile(f, v.path), {v.path})
    ELSE Returned([name |-> PathBasename(filePath),
                   extension |-> ToLowerCase(PathExtname(PathBasename(filePath))),
                   content |-> v.path],
                  {v.path})

(***************************************************************************)
(* Inputs.                                                                  *)
(***************************************************************************)
InputNames == {S_api, S_apiOld, S_dotdot, S_dot, S_etc, S_passwd, S_pkg, S_resume, S_docs}

SeqsUpTo(S, n) == UNION {[1..k -> S] : k \in 0..n}

\* the path strings handed to the operations: absolute or relative
InputStr(abs, comps) == (IF abs THEN <<Slash>> ELSE <<>>) \o JoinWith(comps, <<Slash>>)

PathInputs == {InputStr(abs, comps) : abs \in BOOLEAN, comps \in SeqsUpTo(InputNames, MaxComps)}

Patterns == {<<>>, <<"m","d">>, <<"M","D">>, <<".">>, <<"r","e","s">>}

\* process.env: ANTHROPIC_API_KEY (unset, or its value) and whether
\* NODE_ENV is 'production'
EnvUnset == [hasKey |-> FALSE, key |-> <<>>, production |-> FALSE]

KeyChoices ==
    {[hasKey |-> FALSE, key |-> <<>>],
     [hasKey |-> TRUE, key |-> <<>>],
     [hasKey |-> TRUE, key |-> <<" ", " ">>],
     [hasKey |-> TRUE, key |-> <<" ", "s", "k", " ">>]}

EnvChoices ==
    {[hasKey |-> k.hasKey, key |-> k.key, production |-> pr] :
        k \in KeyChoices, pr \in BOOLEAN}

(***************************************************************************)
(* The hardened library, one call at a time.                                *)
(***************************************************************************)
NoCall == [op |-> "none"]
\* no command-line client is running
NoCli == [pc |-> "none"]
\* no library calls are in flight together
NoTasks == <<>>
\* no batch operation is running
NoDigest == [pc |-> "none"]
\* no page of the browser UI is open
NoUi == [pc |-> "none"]
NoResult == [status |-> "none", value |-> <<>>]

InitLib ==
    /\ fs \in FsChoices
    /\ env = EnvUnset
    /\ call = NoCall
    /\ result = NoResult
    /\ touched = {}
    /\ upstream = 0
    /\ cli = NoCli
    /\ tasks = NoTasks
    /\ digest = NoDigest
    /\ ui = NoUi

\* The operations keep no state between calls: a behaviour is one call on
\* one filesystem.
Finish(c, r) ==
    /\ call' = c
    /\ result' = [status |-> r.status, value |-> r.value]
    /\ touched' = r.touched
    /\ UNCHANGED <<fs, env, upstream, cli, tasks, digest, ui>>

LibReadFileContent ==
    /\ call = NoCall
    /\ \E p \in PathInputs :
        Finish([op |-> "readFileContent", path |-> p], readFileContent(fs, p))

LibListDirectory ==
    /\ call = NoCall
    /\ \E p \in PathInputs :
        Finish([op |-> "listDirectory", path |-> p], listDirectory(fs, p))

LibSearchFiles ==
    /\ call = NoCall
    /\ \E p \in PathInputs, pat \in Patterns :
        Finish([op |-> "searchFiles", path |-> p, pattern |-> pat],
               searchFiles(fs, p, pat))

LibAnalyzeFolder ==
    /\ call = NoCall
    /\ \E p \in PathInputs :
        Finish([op |-> "analyzeFolder", path |-> p], analyzeFolder(fs, p))

LibSummarizeFile ==
    /\ call = NoCall
    /\ \E p \in PathInputs :
        Finish([op |-> "summarizeFile", path |-> p], summarizeFile(fs, p))

NextLib ==
    \/ LibReadFileContent
    \/ LibListDirectory
    \/ LibSearchFiles
    \/ LibAnalyzeFolder
    \/ LibSummarizeFile

SpecLib == InitLib /\ [][NextLib]_vars

(***************************************************************************)
(* Claims about the hardened library.                                       *)
(***************************************************************************)
\* component-wise descent: base is a prefix of p, component by component
IsDescendantOrSelf(p, base) ==
    Len(base) <= Len(p) /\ SubSeq(p, 1, Len(base)) = base

LibOps == {"readFileContent", "listDirectory", "searchFiles", "analyzeFolder", "summarizeFile"}

\* C1: every path a hardened operation hands to the filesystem is the
\* api-resources directory or a true (component-wise) descendant of it.
C1_JailConfinement ==
    call.op \in LibOps =>
        \A p \in touched : IsDescendantOrSelf(p, ALLOWED_BASE_PATH)

\* the path of a call resolves outside the api-resources directory
ResolvesOutsideJail(p) == ~IsDescendantOrSelf(PathResolve(p), ALLOWED_BASE_PATH)

\* C2: readFileContent of a path that resolves outside api-resources fails
\* with AccessDenied (it neither succeeds nor fails with NotFound), and
\* readFileContent('api-resources/<existing file>') succeeds.
C2_OutsideIsAccessDenied ==
    call.op = "readFileContent" =>
        /\ ResolvesOutsideJail(call.path) => result.status = AccessDenied
        /\ (/\ StartsWith(call.path, S_apiSlash)
            /\ PathResolve(call.path) \in fs.files \ fs.unreadable
            /\ ~ResolvesOutsideJail(call.path))
           => result.status = "ok"

(***************************************************************************)
(* The unrestricted helpers that the tool-protocol server, the HTTP/API     *)
(* server and the serverless adapter each carry inline.                     *)
(***************************************************************************)
\* stat.size; sizes are not tracked per file: the length of the name
FileSize(f, p) == Len(p[Len(p)])

readFileContentInline(f, filePath) ==
    LET Read(resolvedPath, access, read) ==
            IF access # "ok" THEN Threw(access, {resolvedPath})
            ELSE IF read # "ok" THEN Threw(read, {resolvedPath})
            ELSE Returned([content |-> resolvedPath], {resolvedPath})
        At(resolvedPath) ==
            Read(resolvedPath, FsAccess(f, resolvedPath), FsReadFile(f, resolvedPath))
    IN At(PathResolve(filePath))

InlineEntry(f, dir, name) ==
    LET Entry(entryPath, sized) ==
            [name |-> name,
             type |-> IF EntryIsDirectory(f, entryPath) THEN "directory"
                      ELSE IF EntryIsFile(f, entryPath) THEN "file" ELSE "other",
             hasSize |-> sized,
             size |-> IF sized THEN FileSize(f, entryPath) ELSE 0]
        At(entryPath) ==
            Entry(entryPath, EntryIsFile(f, entryPath) /\ FsStat(f, entryPath) = "ok")
    IN At(PathJoin(dir, name))

listDirectoryInline(f, dirPath) ==
    LET List(resolvedPath, names) ==
            Returned([i \in 1..Len(names) |-> InlineEntry(f, resolvedPath, names[i])],
                     {resolvedPath}
                       \cup {PathJoin(resolvedPath, names[i]) : i \in
                               {j \in 1..Len(names) :
                                   EntryIsFile(f, PathJoin(resolvedPath, names[j]))}})
        Read(resolvedPath, access, readdir) ==
            IF access # "ok" THEN Threw(access, {resolvedPath})
            ELSE IF readdir # "ok" THEN Threw(readdir, {resolvedPath})
            ELSE List(resolvedPath, DirEntries(f, resolvedPath))
        At(resolvedPath) ==
            Read(resolvedPath, FsAccess(f, resolvedPath), FsReaddir(f, resolvedPath))
    IN At(PathResolve(dirPath))

RECURSIVE searchRecursive(_, _, _)
RECURSIVE searchRecursiveEntries(_, _, _, _)
searchRecursiveEntries(f, dir, names, pattern) ==
    IF names = <<>> THEN [results |-> <<>>, touched |-> {}]
    ELSE LET name == Head(names)
             entryPath == PathJoin(dir, name)
             rest == searchRecursiveEntries(f, dir, Tail(names), pattern)
         IN IF EntryIsDirectory(f, entryPath)
            THEN IF ~StartsWith(name, S_dot) /\ name # S_nodeModules
                 THEN LET sub == searchRecursive(f, entryPath, pattern)
                      IN [results |-> sub.results \o rest.results,
                          touched |-> sub.touched \cup rest.touched]
                 ELSE rest
            ELSE IF EntryIsFile(f, entryPath)
                    /\ Includes(ToLowerCase(name), ToLowerCase(pattern))
                 THEN [results |-> <<entryPath>> \o rest.results,
                       touched |-> rest.touched]
                 ELSE rest

searchRecursive(f, currentPath, pattern) ==
    IF FsReaddir(f, currentPath) # "ok"
    THEN [results |-> <<>>, touched |-> {currentPath}]
    ELSE LET r == searchRecursiveEntries(f, currentPath,
                                         DirEntries(f, currentPath), pattern)
         IN [results |-> r.results, touched |-> r.touched \cup {currentPath}]

searchFilesInline(f, rootPath, pattern) ==
    LET Found(r) == Returned(r.results, r.touched)
    IN Found(searchRecursive(f, PathResolve(rootPath), pattern))

(***************************************************************************)
(* The analyze_folder walk (tool-protocol server and HTTP/API server).      *)
(***************************************************************************)
\* `depth < 3 + 1`: one level more is entered
MaxAnalyzeDepthOneMore == 3 + 1

\* `depth < 3`
MaxAnalyzeDepth == 3
\* `analysis.structure.slice(0, 50)`
StructureLimit == 50

NoAnalysis == [totalFiles |-> 0, totalDirectories |-> 0, exts |-> <<>>,
               totalSize |-> 0, structure |-> <<>>, touched |-> {}]

MergeAnalysis(a, b) ==
    [totalFiles |-> a.totalFiles + b.totalFiles,
     totalDirectories |-> a.totalDirectories + b.totalDirectories,
     exts |-> a.exts \o b.exts,
     totalSize |-> a.totalSize + b.totalSize,
     structure |-> a.structure \o b.structure,
     touched |-> a.touched \cup b.touched]

\* Math.round(size / 1024)
SizeKB(size) == (size + 512) \div 1024

ExtLabel(name) ==
    LET e == ToLowerCase(PathExtname(name))
    IN IF e = <<>> THEN <<"(","n","o"," ","e","x","t","e","n","s","i","o","n",")">> ELSE e

RECURSIVE analyzeRecursive(_, _, _)
RECURSIVE analyzeEntries(_, _, _, _)
analyzeEntries(f, dir, names, depth) ==
    IF names = <<>> THEN NoAnalysis
    ELSE LET name == Head(names)
             entryPath == PathJoin(dir, name)
             rest == analyzeEntries(f, dir, Tail(names), depth)
         IN IF EntryIsDirectory(f, entryPath)
            THEN LET line == [NoAnalysis EXCEPT
                                 !.totalDirectories = 1,
                                 !.structure = <<[depth |-> depth, kind |-> "dir",
                                                  name |-> name]>>]
                     sub == IF /\ ~StartsWith(name, S_dot)
                               /\ name # S_nodeModules
                               /\ depth < MaxAnalyzeDepth
                            THEN analyzeRecursive(f, entryPath, depth + 1)
                            ELSE NoAnalysis
                 IN MergeAnalysis(MergeAnalysis(line, sub), rest)
            ELSE IF EntryIsFile(f, entryPath)
                 THEN MergeAnalysis(
                        [NoAnalysis EXCEPT
                            !.totalFiles = 1,
                            !.exts = <<ExtLabel(name)>>,
                            !.totalSize = FileSize(f, entryPath),
                            !.structure = <<[depth |-> depth, kind |-> "file",
                                             name |-> name,
                                             sizeKB |-> SizeKB(FileSize(f, entryPath))]>>,
                            !.touched = {entryPath}],
                        rest)
                 ELSE rest

analyzeRecursive(f, currentPath, depth) ==
    IF FsReaddir(f, currentPath) # "ok"
    THEN [NoAnalysis EXCEPT !.touched = {currentPath}]
    ELSE MergeAnalysis([NoAnalysis EXCEPT !.touched = {currentPath}],
                       analyzeEntries(f, currentPath, DirEntries(f, currentPath), depth))

\* the summary that the tool and the route compose from the walk
AnalysisSummary(a) ==
    LET extSet == {a.exts[i] : i \in 1..Len(a.exts)} IN
    [totalFiles |-> a.totalFiles,
     totalDirectories |-> a.totalDirectories,
     \* Math.round(totalSize / (1024 * 1024) * 100) / 100, in hundredths
     sizeMB100 |-> (a.totalSize * 100 + 524288) \div 1048576,
     fileTypes |-> [e \in extSet |->
                       Cardinality({i \in 1..Len(a.exts) : a.exts[i] = e})],
     structure |-> SubSeq(a.structure, 1,
                          IF Len(a.structure) > StructureLimit
                          THEN StructureLimit ELSE Len(a.structure)),
     more |-> IF Len(a.structure) > StructureLimit
              THEN Len(a.structure) - StructureLimit ELSE 0]

\* the body of analyze_folder up to the summary
analyzeFolderDeep(f, folderPath) ==
    LET Summed(a) == Returned(AnalysisSummary(a), a.touched)
        Stat(resolvedPath, stat) ==
            IF stat # "ok" THEN Threw(stat, {resolvedPath})
            ELSE IF ~EntryIsDirectory(f, resolvedPath)
            THEN Threw("Path is not a directory", {resolvedPath})
            ELSE Summed(analyzeRecursive(f, resolvedPath, 0))
        At(resolvedPath) == Stat(resolvedPath, FsStat(f, resolvedPath))
    IN At(PathResolve(folderPath))

(***************************************************************************)
(* The tool-protocol server's four tools (server.registerTool).  A handler  *)
(* answers [rejected, content, touched]; a text is the sequence of the      *)
(* template's literal head and the values interpolated after it.            *)
(***************************************************************************)
TextBlock(text) == [type |-> "text", text |-> text]

ToolResolved(text, paths) ==
    [rejected |-> FALSE, content |-> <<TextBlock(text)>>, touched |-> paths]

ToolRejected(r) == [rejected |-> TRUE, content |-> <<>>, touched |-> r.touched]

\* the handler without its catch: the rejection escapes to the caller
ToolNoCatch(r, okText, errorHead) ==
    IF r.status = "ok" THEN ToolResolved(okText, r.touched)
    ELSE ToolRejected(r)

\* try { ok(value) } catch (error) { `${errorHead}${error.message}` }
ToolTryCatch(r, okText, errorHead) ==
    IF r.status = "ok" THEN ToolResolved(okText, r.touched)
    ELSE ToolResolved(<<errorHead, r.status>>, r.touched)

read_file(f, filePath) ==
    LET Answer(r) ==
            ToolTryCatch(r, <<"File: ", filePath, r.value>>, "Error reading file: ")
    IN Answer(readFileContentInline(f, filePath))

\* `${item.type === 'directory' ? dirIcon : fileIcon} ${item.name}${sizeInfo}`
FormatEntry(item) ==
    [icon |-> IF item.type = "directory" THEN "dir" ELSE "file",
     name |-> item.name,
     sizeInfo |-> IF item.hasSize THEN <<item.size>> ELSE <<>>]

FormatEntries(items) == [i \in 1..Len(items) |-> FormatEntry(items[i])]

list_directory(f, dirPath) ==
    LET Answer(r) ==
            ToolTryCatch(r, <<"Directory: ", dirPath, FormatEntries(r.value)>>,
                         "Error listing directory: ")
    IN Answer(listDirectoryInline(f, dirPath))

NoFilesFound == "No files found matching the pattern."

search_files(f, rootPath, pattern) ==
    LET Answer(r) ==
            ToolTryCatch(r,
                         <<"Search Results for ", pattern, rootPath,
                           IF Len(r.value) > 0 THEN r.value ELSE NoFilesFound>>,
                         "Error searching files: ")
    IN Answer(searchFilesInline(f, rootPath, pattern))

analyze_folder(f, folderPath) ==
    LET Answer(r) ==
            ToolTryCatch(r, <<"Folder Analysis: ", folderPath, r.value>>,
                         "Error analyzing folder: ")
    IN Answer(analyzeFolderDeep(f, folderPath))

FinishTool(c, r) ==
    /\ call' = c
    /\ result' = [rejected |-> r.rejected, content |-> r.content]
    /\ touched' = r.touched
    /\ UNCHANGED <<fs, env, upstream, cli, tasks, digest, ui>>

ToolReadFile ==
    /\ call = NoCall
    /\ \E p \in PathInputs :
        FinishTool([op |-> "read_file", path |-> p], read_file(fs, p))

ToolListDirectory ==
    /\ call = NoCall
    /\ \E p \in PathInputs :
        FinishTool([op |-> "list_directory", path |-> p], list_directory(fs, p))

ToolSearchFiles ==
    /\ call = NoCall
    /\ \E p \in PathInputs, pat \in Patterns :
        FinishTool([op |-> "search_files", path |-> p, pattern |-> pat],
                   search_files(fs, p, pat))

ToolAnalyzeFolder ==
    /\ call = NoCall
    /\ \E p \in PathInputs :
        FinishTool([op |-> "analyze_folder", path |-> p], analyze_folder(fs, p))

InitTools == InitLib

NextTools ==
    \/ ToolReadFile
    \/ ToolListDirectory
    \/ ToolSearchFiles
    \/ ToolAnalyzeFolder

SpecTools == InitTools /\ [][NextTools]_vars

(***************************************************************************)
(* Claims about the tool-protocol tools.                                    *)
(***************************************************************************)
ToolOps == {"read_file", "list_directory", "search_files", "analyze_folder"}

ErrorHead(op) ==
    CASE op = "read_file" -> "Error reading file: "
      [] op = "list_directory" -> "Error listing directory: "
      [] op = "search_files" -> "Error searching files: "
      [] op = "analyze_folder" -> "Error analyzing folder: "

\* the path the tool was called on, resolved
ToolTarget == PathResolve(call.path)

TargetMissing == ~Exists(fs, ToolTarget)
TargetUnreadable == Exists(fs, ToolTarget) /\ ToolTarget \in fs.unreadable

OneTextBlock ==
    /\ result.rejected = FALSE
    /\ Len(result.content) = 1
    /\ result.content[1].type = "text"

IsErrorText == result.content[1].text[1] = ErrorHead(call.op)

Absent == [has |-> FALSE, val |-> <<>>]
Str(s) == [has |-> TRUE, val |-> s]

\* `!x` for a field that is undefined or a string
Falsy(x) == ~x.has \/ x.val = <<>>

ErrorBody(msg) == [kind |-> "error", error |-> msg]
ResultBody(r) == [kind |-> "result", result |-> r]

\* one terminal send (`res.status(..).json(..)`, `res.json(..)`, `.end()`)
\* on the path taken, with the paths read and the upstream calls made first
HttpResponse(status, body, paths, sent) ==
    [status |-> status, body |-> body, touched |-> paths, upstream |-> sent,
     responses |-> 1]

\* fs.promises.access(p) of a path string the operating system resolves:
\* every component on the way has to be an existing directory
RECURSIVE OsWalk(_, _, _)
OsWalk(f, cur, segs) ==
    IF segs = <<>> THEN [ok |-> TRUE, path |-> cur]
    ELSE LET h == Head(segs) IN
         IF h = <<>> THEN OsWalk(f, cur, Tail(segs))
         ELSE IF cur \notin f.dirs THEN [ok |-> FALSE, path |-> cur]
         ELSE IF h = S_dot THEN OsWalk(f, cur, Tail(segs))
         ELSE IF h = S_dotdot
              THEN OsWalk(f, IF cur = <<>> THEN cur ELSE SubSeq(cur, 1, Len(cur) - 1),
                          Tail(segs))
              ELSE OsWalk(f, Append(cur, h), Tail(segs))

OsAccess(f, s) ==
    LET w == OsWalk(f, IF IsAbsolute(s) THEN <<>> ELSE Cwd, SplitSlash(s))
    IN IF ~w.ok THEN "ENOENT" ELSE FsAccess(f, w.path)

(***************************************************************************)
(* The HTTP/API server: POST /api/tools.                                    *)
(***************************************************************************)
\* read_file: prefix unless the path starts with 'api-resources/'
RestrictFile(p) == IF StartsWith(p, S_apiSlash) THEN p ELSE S_apiSlash \o p

\* the other tools: '.', '' and '/' are the root, 'api-resources' and
\* 'api-resources/...' stay, anything else is prefixed
RestrictDir(p) ==
    IF p = S_dot \/ p = <<>> \/ p = <<Slash>> THEN S_api
    ELSE IF ~StartsWith(p, S_apiSlash) /\ p # S_api THEN S_apiSlash \o p
    ELSE p

\* the route without the check, as in the earlier adapter variant
NoPrecheck(f, restrictedPath) == "ok"

\* the check before list_directory lists: fs.promises.access(restrictedPath)
listDirectoryPrecheck(f, restrictedPath) == OsAccess(f, restrictedPath)

apiReadFile(f, params) ==
    LET Answer(restrictedFilePath, r) ==
            IF r.status = "ok"
            THEN HttpResponse(200, ResultBody(<<"", r.value>>), r.touched, 0)
            ELSE HttpResponse(500,
                              ErrorBody(<<"Failed to read file ", restrictedFilePath,
                                          r.status>>),
                              r.touched, 0)
        At(restrictedFilePath) ==
            Answer(restrictedFilePath, readFileContentInline(f, restrictedFilePath))
    IN IF Falsy(params.path)
       THEN HttpResponse(400, ErrorBody(<<"Missing path parameter">>), {}, 0)
       ELSE At(RestrictFile(params.path.val))

apiListDirectory(f, params) ==
    LET Answer(restrictedPath, r) ==
            IF r.status = "ok"
            THEN HttpResponse(200, ResultBody(<<"", FormatEntries(r.value)>>),
                              r.touched, 0)
            ELSE HttpResponse(500,
                              ErrorBody(<<"Failed to list directory ", restrictedPath,
                                          r.status>>),
                              r.touched, 0)
        At(restrictedPath) ==
            IF listDirectoryPrecheck(f, restrictedPath) # "ok"
            THEN HttpResponse(200,
                              ResultBody(<<"Directory not found: ", restrictedPath>>),
                              {PathResolve(restrictedPath)}, 0)
            ELSE Answer(restrictedPath, listDirectoryInline(f, restrictedPath))
    IN IF Falsy(params.path)
       THEN HttpResponse(400, ErrorBody(<<"Missing path parameter">>), {}, 0)
       ELSE At(RestrictDir(params.path.val))

apiSearchFiles(f, params) ==
    LET Answer(restrictedRootPath, r) ==
            IF Len(r.value) > 0
            THEN HttpResponse(200, ResultBody(<<"", r.value>>), r.touched, 0)
            ELSE HttpResponse(200,
                              ResultBody(<<"No files found matching ",
                                           params.pattern.val, restrictedRootPath>>),
                              r.touched, 0)
        At(restrictedRootPath) ==
            Answer(restrictedRootPath,
                   searchFilesInline(f, restrictedRootPath, params.pattern.val))
    IN IF Falsy(params.rootPath) \/ Falsy(params.pattern)
       THEN HttpResponse(400, ErrorBody(<<"Missing rootPath or pattern parameter">>),
                         {}, 0)
       ELSE At(RestrictDir(params.rootPath.val))

apiAnalyzeFolder(f, params) ==
    LET Answer(r) ==
            IF r.status = "ok"
            THEN HttpResponse(200,
                              ResultBody(<<"Folder Analysis: ", params.path.val, r.value>>),
                              r.touched, 0)
            ELSE HttpResponse(500, ErrorBody(<<r.status>>), r.touched, 0)
    IN IF Falsy(params.path)
       THEN HttpResponse(400, ErrorBody(<<"Missing path parameter">>), {}, 0)
       ELSE Answer(analyzeFolderDeep(f, RestrictDir(params.path.val)))

\* body.tool is the tool's name, "" when the field is absent or empty
apiPostTools(f, body) ==
    IF body.tool = "" \/ ~body.hasParams
    THEN HttpResponse(400, ErrorBody(<<"Missing required fields: tool and params">>),
                      {}, 0)
    ELSE CASE body.tool = "read_file" -> apiReadFile(f, body.params)
           [] body.tool = "list_directory" -> apiListDirectory(f, body.params)
           [] body.tool = "search_files" -> apiSearchFiles(f, body.params)
           [] body.tool = "analyze_folder" -> apiAnalyzeFolder(f, body.params)
           [] OTHER -> HttpResponse(400, ErrorBody(<<"Unknown tool: ", body.tool>>), {}, 0)

(***************************************************************************)
(* Chat: the key, the context documents, the upstream call.                 *)
(***************************************************************************)
\* loadClaudeApiKey without the check of the trimmed value
loadClaudeApiKeyUntrimmed(e) ==
    IF e.hasKey /\ e.key # <<>> THEN Str(e.key) ELSE Absent

\* null (Absent) unless the variable is set and not blank; trimmed
loadClaudeApiKey(e) ==
    IF e.hasKey /\ e.key # <<>> /\ Trim(e.key) # <<>> THEN Str(Trim(e.key)) ELSE Absent

\* the for loop over readdir('api-resources'): hidden names are skipped (the
\* adapter also skips names not ending in '.md'), regular files are read,
\* a file that cannot be read is left out
RECURSIVE contextFiles(_, _, _, _)
contextFiles(f, dir, names, mdOnly) ==
    IF names = <<>> THEN [docs |-> <<>>, touched |-> {}]
    ELSE LET file == Head(names)
             filePath == PathJoin(dir, file)
             rest == contextFiles(f, dir, Tail(names), mdOnly)
         IN IF StartsWith(file, S_dot) \/ (mdOnly /\ ~EndsWith(file, S_md))
            THEN rest
            ELSE IF EntryIsFile(f, filePath)
                 THEN [docs |-> (IF FsAccess(f, filePath) = "ok"
                                 THEN <<file>> ELSE <<>>) \o rest.docs,
                       touched |-> {filePath} \cup rest.touched]
                 ELSE [docs |-> rest.docs, touched |-> {filePath} \cup rest.touched]

\* HTTP/API server: readdir of api-resources; any failure leaves no context
apiLoadContext(f) ==
    LET Loaded(apiResourcesPath, c) ==
            [docs |-> c.docs, touched |-> c.touched \cup {apiResourcesPath}]
        At(apiResourcesPath) ==
            IF FsReaddir(f, apiResourcesPath) # "ok"
            THEN [docs |-> <<>>, touched |-> {apiResourcesPath}]
            ELSE Loaded(apiResourcesPath,
                        contextFiles(f, apiResourcesPath,
                                     DirEntries(f, apiResourcesPath), FALSE))
    IN At(PathResolve(S_api))

\* what the upstream call does: a transport error, a response whose status
\* is not 2xx, a 2xx response that is not JSON, or a 2xx response with text
NoUpstream == [kind |-> "none", text |-> <<>>]

\* `aiResponse.length > 30`
TruncatedMinLength == 30

Pad == [i \in 1..TruncatedMinLength |-> "x"]

Replies ==
    {<<>>, <<"o", "k", ".">>, <<"o", "k">>,
     Pad \o <<".">>, Pad \o <<"d">>, Pad \o <<".", " ">>, Pad \o <<"d", " ", "\n">>,
     Pad \o <<"-">>, Pad \o <<",">>, Pad \o <<")">>,
     Pad \o S_moreDetails, Pad \o S_moreDetails \o <<" ">>,
     SubSeq(Pad, 1, TruncatedMinLength - 1) \o <<"d">>}

UpstreamOutcomes ==
    {[kind |-> k, text |-> <<>>] :
        k \in {"ssl", "econnrefused", "network", "non2xx", "badjson"}}
    \cup {[kind |-> "ok", text |-> t] : t \in Replies}

\* usage of the canned answers
FixedUsage == [promptTokens |-> 50, completionTokens |-> 100, totalTokens |-> 150]
\* usage reported by the upstream response
UpstreamUsage == [promptTokens |-> 12, completionTokens |-> 34, totalTokens |-> 12 + 34]

ChatBody(response, usage) ==
    [kind |-> "chat", response |-> response, usage |-> usage,
     hasTruncated |-> FALSE, truncated |-> FALSE]

\* `|| 'No response from Claude'`
NoResponse == S_noResponse

\* the HTTP/API server's answer when the transport fails on the certificate
\* or the connection is refused
apiMockResponse(message, context) ==
    <<"I can see you're working with a file system project. ">>
    \o (IF ~Falsy(context)
        THEN <<"Based on the directory listing, I can see files like ",
               IF Includes(context.val, S_pkg) THEN "package.json (Node.js project), " ELSE "",
               IF Includes(context.val, S_readme) THEN "README.md, " ELSE "",
               IF Includes(context.val, S_git) THEN "and a Git repository. " ELSE "",
               "This appears to be a well-organized development project.">>
        ELSE IF Includes(ToLowerCase(message.val), S_directory)
        THEN <<"To help you explore your files, you can use commands like 'list current directory' or ask about specific files.">>
        ELSE <<"I'm here to help you explore and understand your files. What would you like to know about your project?">>)
    \o <<"Note: This is a mock response due to SSL certificate issues.">>

ApiKeyMissing ==
    "Claude API key not found. Please set ANTHROPIC_API_KEY environment variable in your .env.local file."

apiPostChat(f, e, body, up) ==
    LET Answer(c) ==
            CASE up.kind \in {"ssl", "econnrefused"} ->
                   HttpResponse(200,
                                ChatBody(apiMockResponse(body.message, body.context),
                                         FixedUsage),
                                c.touched, 1)
              [] up.kind = "ok" ->
                   HttpResponse(200,
                                ChatBody(IF up.text = <<>> THEN NoResponse ELSE up.text,
                                         UpstreamUsage),
                                c.touched, 1)
              [] up.kind = "non2xx" ->
                   HttpResponse(500, ErrorBody(<<"Claude API error: ", up.kind>>),
                                c.touched, 1)
              [] OTHER ->
                   HttpResponse(500, ErrorBody(<<up.kind>>), c.touched, 1)
    IN IF Falsy(body.message)
       THEN HttpResponse(400, ErrorBody(<<"Missing message parameter">>), {}, 0)
       ELSE IF ~loadClaudeApiKey(e).has
       THEN HttpResponse(400, ErrorBody(<<ApiKeyMissing>>), {}, 0)
       ELSE Answer(apiLoadContext(f))

apiGetStatus ==
    HttpResponse(200, [kind |-> "status", status |-> "ok"], {}, 0)

\* server.connect(transport) of the tool-protocol library resolves or throws
ConnectOutcomes == {"connected", "throws"}

\* POST /mcp: after connect the fixed 'not implemented' JSON-RPC error
\* (-32601) with status 200; when connect throws, 500 with -32603
apiPostMcp(body, connect) ==
    IF connect = "connected"
    THEN HttpResponse(200, [kind |-> "jsonrpc", code |-> 0 - 32601,
                            id |-> IF Falsy(body.id) THEN Absent ELSE body.id], {}, 0)
    ELSE HttpResponse(500, [kind |-> "jsonrpc", code |-> 0 - 32603,
                            id |-> IF Falsy(body.id) THEN Absent ELSE body.id], {}, 0)

(***************************************************************************)
(* The HTTP/API server, one request at a time.                              *)
(***************************************************************************)
NoCorsHeaders == [acao |-> "", acac |-> "", acam |-> "", acah |-> ""]

\* app.use(cors()): every origin is allowed
CorsAnyOrigin == [NoCorsHeaders EXCEPT !.acao = "*"]

OptPaths == {Absent} \cup {Str(p) : p \in PathInputs}
OptPatterns == {Absent, Str(<<>>), Str(<<"m", "d">>), Str(<<"r", "e", "s">>)}
Messages == {Absent, Str(<<>>), Str(<<"h", "i">>), Str(S_directory)}
Contexts == {Absent, Str(S_pkg)}

ToolsBody(tool, hasParams, path, rootPath, pattern) ==
    [tool |-> tool, hasParams |-> hasParams,
     params |-> [path |-> path, rootPath |-> rootPath, pattern |-> pattern]]

Request(op, method, route, origin, body, up) ==
    [op |-> op, method |-> method, route |-> route, origin |-> origin,
     body |-> body, up |-> up]

FinishHttp(c, r, headers) ==
    /\ call' = c
    /\ result' = [status |-> r.status, body |-> r.body, headers |-> headers,
                  responses |-> r.responses]
    /\ touched' = r.touched
    /\ upstream' = r.upstream
    /\ UNCHANGED <<fs, env, cli, tasks, digest, ui>>

ApiTools(body) ==
    FinishHttp(Request("api.tools", "POST", "/api/tools", "", body, NoUpstream),
               apiPostTools(fs, body), CorsAnyOrigin)

ApiToolsReadFile ==
    /\ call = NoCall
    /\ \E p \in OptPaths : ApiTools(ToolsBody("read_file", TRUE, p, Absent, Absent))

ApiToolsListDirectory ==
    /\ call = NoCall
    /\ \E p \in OptPaths : ApiTools(ToolsBody("list_directory", TRUE, p, Absent, Absent))

ApiToolsSearchFiles ==
    /\ call = NoCall
    /\ \E p \in OptPaths, pat \in OptPatterns :
        ApiTools(ToolsBody("search_files", TRUE, Absent, p, pat))

ApiToolsAnalyzeFolder ==
    /\ call = NoCall
    /\ \E p \in OptPaths : ApiTools(ToolsBody("analyze_folder", TRUE, p, Absent, Absent))

\* no tool, no params, or a tool the server does not know
ApiToolsMalformed ==
    /\ call = NoCall
    /\ \E tool \in {"", "read_file", "delete_file"}, hasParams \in BOOLEAN :
        /\ tool = "read_file" => ~hasParams
        /\ ApiTools(ToolsBody(tool, hasParams, Str(S_resume), Absent, Absent))

ApiChat ==
    /\ call = NoCall
    /\ \E m \in Messages, c \in Contexts, up \in UpstreamOutcomes :
        LET body == [message |-> m, context |-> c] IN
        FinishHttp(Request("api.chat", "POST", "/api/chat", "", body, up),
                   apiPostChat(fs, env, body, up), CorsAnyOrigin)

ApiStatus ==
    /\ call = NoCall
    /\ FinishHttp(Request("api.status", "GET", "/api/status", "", Absent, NoUpstream),
                  apiGetStatus, CorsAnyOrigin)

ApiMcp ==
    /\ call = NoCall
    /\ \E id \in {Absent, Str(<<"7">>)}, connect \in ConnectOutcomes :
        FinishHttp([op |-> "api.mcp", method |-> "POST", route |-> "/mcp", origin |-> "",
                    body |-> [id |-> id], up |-> NoUpstream, connect |-> connect],
                   apiPostMcp([id |-> id], connect), CorsAnyOrigin)

InitApi ==
    /\ fs \in FsChoices
    /\ env \in {e \in EnvChoices : ~e.production}
    /\ call = NoCall
    /\ result = NoResult
    /\ touched = {}
    /\ upstream = 0
    /\ cli = NoCli
    /\ tasks = NoTasks
    /\ digest = NoDigest
    /\ ui = NoUi

NextApi ==
    \/ ApiToolsReadFile
    \/ ApiToolsListDirectory
    \/ ApiToolsSearchFiles
    \/ ApiToolsAnalyzeFolder
    \/ ApiToolsMalformed
    \/ ApiChat
    \/ ApiStatus
    \/ ApiMcp

SpecApi == InitApi /\ [][NextApi]_vars

(***************************************************************************)
(* Claims about the HTTP/API server's POST /api/tools.                      *)
(***************************************************************************)
\* C3: every path POST /api/tools hands to the filesystem is the
\* api-resources directory or a descendant of it, whatever params.path or
\* params.rootPath is.
C3_ApiToolsStayInJail ==
    call.op = "api.tools" => \A p \in touched : IsDescendantOrSelf(p, JailDir)

PathTools == {"read_file", "list_directory", "analyze_folder"}

\* the request is one the route refuses before doing anything
ApiBadRequest ==
    \/ call.body.tool = ""
    \/ ~call.body.hasParams
    \/ call.body.tool \notin ToolOps
    \/ call.body.tool \in PathTools /\ Falsy(call.body.params.path)
    \/ /\ call.body.tool = "search_files"
       /\ Falsy(call.body.params.rootPath) \/ Falsy(call.body.params.pattern)

\* the path string the tool works on after the rewrite
ApiRestricted ==
    CASE call.body.tool = "read_file" -> RestrictFile(call.body.params.path.val)
      [] call.body.tool = "search_files" -> RestrictDir(call.body.params.rootPath.val)
      [] OTHER -> RestrictDir(call.body.params.path.val)

ApiTarget == PathResolve(ApiRestricted)

Is400Error == result.status = 400 /\ result.body.kind = "error"
Is500Error == result.status = 500 /\ result.body.kind = "error"
Is200Result == result.status = 200 /\ result.body.kind = "result"
IsDirectoryNotFound == Is200Result /\ result.body.result[1] = "Directory not found: "

\* the tool's target cannot be worked on
ApiToolFails ==
    CASE call.body.tool = "read_file" -> ApiTarget \notin fs.files \ fs.unreadable
      [] OTHER -> ApiTarget \notin fs.dirs \ fs.unreadable

ProductionOrigin == "https://yonatan-ayalon.com"

allowedOrigins(e) ==
    IF ~e.production
    THEN {"http://localhost:3000", "http://localhost:3500", "http://localhost:8080",
          "https://localhost:3000", "https://localhost:3500"}
    ELSE {ProductionOrigin, "https://www.yonatan-ayalon.com"}

PreflightMethods == "GET, POST, OPTIONS"
PreflightHeaders == "Content-Type, Authorization, x-api-key, anthropic-version"

\* the headers of the OPTIONS branch: the origin is echoed whenever there is
\* one, allow-listed or not
preflightHeaders(e, origin) ==
    [acao |-> origin, acac |-> "true", acam |-> PreflightMethods,
     acah |-> PreflightHeaders]

\* the OPTIONS branch handing the request on instead of ending it
corsPreflightNext(e, origin) ==
    [headers |-> preflightHeaders(e, origin), ended |-> FALSE, next |-> TRUE]

\* the OPTIONS branch ending the response and handing the request on as well
corsPreflightEndAndNext(e, origin) ==
    [headers |-> preflightHeaders(e, origin), ended |-> TRUE, next |-> TRUE]

\* the OPTIONS branch: `return res.status(200).end()`
corsPreflight(e, origin) ==
    [headers |-> preflightHeaders(e, origin), ended |-> TRUE, next |-> FALSE]

\* the branch for actual requests setting the headers for any origin
corsActualAnyOrigin(e, origin) ==
    [headers |-> IF origin # "" THEN preflightHeaders(e, origin) ELSE NoCorsHeaders,
     ended |-> FALSE, next |-> TRUE]

\* the branch for actual requests, then next()
corsActual(e, origin) ==
    [headers |-> IF origin # "" /\ origin \in allowedOrigins(e)
                 THEN preflightHeaders(e, origin) ELSE NoCorsHeaders,
     ended |-> FALSE, next |-> TRUE]

corsMiddleware(e, req) ==
    IF req.method = "OPTIONS" THEN corsPreflight(e, req.origin)
    ELSE corsActual(e, req.origin)

\* what a route adds to HttpResponse: the headers it sets itself ("" for a
\* header it leaves alone) and its name
Routed(handler, headers, r) ==
    [status |-> r.status, body |-> r.body, touched |-> r.touched,
     upstream |-> r.upstream, headers |-> headers, handler |-> handler,
     responses |-> r.responses]

\* res.setHeader / res.header: a later value replaces an earlier one
MergeHeaders(first, later) ==
    [h \in DOMAIN first |-> IF later[h] # "" THEN later[h] ELSE first[h]]

adapterGetStatus(e) ==
    HttpResponse(200,
                 [kind |-> "status", status |-> "ok",
                  environment |-> IF e.production THEN "production" ELSE "development",
                  hasClaudeKey |-> e.hasKey /\ e.key # <<>>],
                 {}, 0)

adapterReadFile(f, params) ==
    LET Answer(restrictedFilePath, r) ==
            IF r.status = "ok"
            THEN HttpResponse(200, ResultBody(<<"", r.value>>), r.touched, 0)
            ELSE HttpResponse(500,
                              ErrorBody(<<"Failed to read file ", restrictedFilePath,
                                          r.status>>),
                              r.touched, 0)
        Check(restrictedFilePath, resolved) ==
            IF ~EndsWith(restrictedFilePath, S_md)
            THEN HttpResponse(400, ErrorBody(<<"Only .md files are allowed to be read">>),
                              {}, 0)
            ELSE IF ~ExistsSync(f, resolved)
            THEN HttpResponse(404, ErrorBody(<<"File ", restrictedFilePath, " not found">>),
                              {resolved}, 0)
            ELSE Answer(restrictedFilePath, readFileContentInline(f, restrictedFilePath))
        At(restrictedFilePath) == Check(restrictedFilePath, PathResolve(restrictedFilePath))
    IN IF Falsy(params.path)
       THEN HttpResponse(400, ErrorBody(<<"Missing path parameter">>), {}, 0)
       ELSE At(RestrictFile(params.path.val))

\* items.filter(item => item.type === 'file' && item.name.endsWith('.md'))
MdFiles(items) ==
    SelectSeq(items, LAMBDA item : item.type = "file" /\ EndsWith(item.name, S_md))

adapterListDirectory(f, params) ==
    LET Listed(mdFiles, paths) ==
            IF Len(mdFiles) > 0
            THEN HttpResponse(200, ResultBody(<<"", FormatEntries(mdFiles)>>), paths, 0)
            ELSE HttpResponse(200,
                              ResultBody(<<"No .md files found in api-resources directory">>),
                              paths, 0)
        Answer(restrictedPath, r) ==
            IF r.status # "ok"
            THEN HttpResponse(500,
                              ErrorBody(<<"Failed to list directory ", restrictedPath,
                                          r.status>>),
                              r.touched, 0)
            ELSE Listed(MdFiles(r.value), r.touched)
        Check(restrictedPath, resolved) ==
            IF ~ExistsSync(f, resolved)
            THEN HttpResponse(404,
                              ErrorBody(<<"Directory ", restrictedPath, " not found">>),
                              {resolved}, 0)
            ELSE Answer(restrictedPath, listDirectoryInline(f, restrictedPath))
    IN IF Falsy(params.path)
       THEN HttpResponse(400, ErrorBody(<<"Missing path parameter">>), {}, 0)
       ELSE Check(S_api, PathResolve(S_api))

adapterSearchFiles(f, params) ==
    LET Found(restrictedRootPath, matchingMdFiles, paths) ==
            IF Len(matchingMdFiles) > 0
            THEN HttpResponse(200, ResultBody(<<"", matchingMdFiles>>), paths, 0)
            ELSE HttpResponse(200,
                              ResultBody(<<"No .md files found matching ",
                                           params.pattern.val, restrictedRootPath>>),
                              paths, 0)
        Answer(restrictedRootPath, r) ==
            Found(restrictedRootPath,
                  SelectSeq(r.value, LAMBDA file : EndsWith(PathStr(file), S_md)),
                  r.touched)
        Check(restrictedRootPath, resolved) ==
            IF ~ExistsSync(f, resolved)
            THEN HttpResponse(404,
                              ErrorBody(<<"Directory ", restrictedRootPath, " not found">>),
                              {resolved}, 0)
            ELSE Answer(restrictedRootPath,
                        searchFilesInline(f, restrictedRootPath, params.pattern.val))
    IN IF Falsy(params.rootPath) \/ Falsy(params.pattern)
       THEN HttpResponse(400, ErrorBody(<<"Missing rootPath or pattern parameter">>),
                         {}, 0)
       ELSE Check(S_api, PathResolve(S_api))

adapterPostTools(f, body) ==
    IF body.tool = "" \/ ~body.hasParams
    THEN HttpResponse(400, ErrorBody(<<"Missing required fields: tool and params">>),
                      {}, 0)
    ELSE CASE body.tool = "read_file" -> adapterReadFile(f, body.params)
           [] body.tool = "list_directory" -> adapterListDirectory(f, body.params)
           [] body.tool = "search_files" -> adapterSearchFiles(f, body.params)
           [] OTHER -> HttpResponse(400, ErrorBody(<<"Unknown tool: ", body.tool>>), {}, 0)

\* the adapter's context: only when api-resources exists, only '.md' files
adapterLoadContext(f) ==
    LET Loaded(apiResourcesPath, c) ==
            [docs |-> c.docs, touched |-> c.touched \cup {apiResourcesPath}]
        At(apiResourcesPath) ==
            IF ~ExistsSync(f, apiResourcesPath) \/ FsReaddir(f, apiResourcesPath) # "ok"
            THEN [docs |-> <<>>, touched |-> {apiResourcesPath}]
            ELSE Loaded(apiResourcesPath,
                        contextFiles(f, apiResourcesPath,
                                     DirEntries(f, apiResourcesPath), TRUE))
    IN At(PathResolve(S_api))

Letters == {"a", "b", "c", "d", "e", "f", "g", "h", "i", "j", "k", "l", "m", "n", "o", "p", "q", "r", "s", "t", "u", "v", "w", "x", "y", "z"}
IsLetter(c) == ToLowerCase(<<c>>)[1] \in Letters
IsWordChar(c) == IsLetter(c) \/ c \in {"0", "1", "2", "3", "4", "5", "6", "7", "8", "9", "_"}

LastChar(s) == s[Len(s)]

\* the truncation test without `aiResponse.length > 30`
seemsTruncatedAnyLength(aiResponse) ==
    LET EndsBadly(trimmed) ==
            \/ trimmed # <<>> /\ IsLetter(LastChar(trimmed))
            \/ trimmed # <<>> /\ LastChar(trimmed) = "-"
            \/ trimmed # <<>> /\ LastChar(trimmed) \in {",", ":", ";"}
            \/ /\ LastChar(aiResponse) \notin {".", "!", "?"}
               /\ ~Includes(aiResponse, S_moreDetails)
    IN EndsBadly(TrimRight(aiResponse))

\* the truncation test of the adapter, regular expression by regular
\* expression
seemsTruncated(aiResponse) ==
    LET EndsBadly(trimmed) ==
            \/ trimmed # <<>> /\ IsLetter(LastChar(trimmed))
            \/ trimmed # <<>> /\ LastChar(trimmed) = "-"
            \/ trimmed # <<>> /\ LastChar(trimmed) \in {",", ":", ";"}
            \/ /\ IsLetter(LastChar(aiResponse))
               /\ Len(aiResponse) = 1 \/ ~IsWordChar(aiResponse[Len(aiResponse) - 1])
            \/ /\ LastChar(aiResponse) \notin {".", "!", "?"}
               /\ ~Includes(aiResponse, S_moreDetails)
    IN Len(aiResponse) > TruncatedMinLength /\ EndsBadly(TrimRight(aiResponse))

\* the paragraph appended to a reply that seems truncated
PatchText == "Response was incomplete! Let me provide you with a complete assessment."

\* the response text and the `truncated` flag
patchTruncated(aiResponse) ==
    LET Patch(truncated) ==
            [text |-> IF truncated THEN TrimRight(aiResponse) \o <<"...", PatchText>>
                      ELSE aiResponse,
             truncated |-> truncated]
    IN Patch(seemsTruncated(aiResponse))

FallbackResponse ==
    <<"Absolutely! Yonatan is an excellent full stack developer with 8+ years of experience.",
      "Note: Using fallback response due to network issues.">>

AdapterKeyMissing ==
    "Claude API key not found. Please set ANTHROPIC_API_KEY environment variable."

\* the catch block answering with an error status instead
chatCatchRethrow(paths) ==
    HttpResponse(500, ErrorBody(<<"Chat API Error">>), paths, 1)

\* the catch block of handleChatRequest: `res.json` of the fallback paragraph
\* with the fixed usage, status left at 200
chatCatch(paths) ==
    HttpResponse(200, ChatBody(FallbackResponse, FixedUsage), paths, 1)

handleChatRequest(f, e, body, up) ==
    LET Success(c, patched) ==
            HttpResponse(200,
                         [ChatBody(patched.text, UpstreamUsage)
                             EXCEPT !.hasTruncated = TRUE,
                                    !.truncated = patched.truncated],
                         c.touched, 1)
        Answer(c) ==
            IF up.kind = "ok"
            THEN Success(c, patchTruncated(IF up.text = <<>> THEN NoResponse ELSE up.text))
            ELSE chatCatch(c.touched)
    IN IF Falsy(body.message)
       THEN HttpResponse(400, ErrorBody(<<"Missing message parameter">>), {}, 0)
       ELSE IF ~loadClaudeApiKey(e).has
       THEN HttpResponse(400, ErrorBody(<<AdapterKeyMissing>>), {}, 0)
       ELSE Answer(adapterLoadContext(f))

\* `origin && !allowedOrigins.includes(origin)` never holding
originNeverDenied(e, origin) == FALSE

\* `origin && !allowedOrigins.includes(origin)`
originDenied(e, origin) == origin # "" /\ origin \notin allowedOrigins(e)

EvaluateHeaders ==
    [acao |-> ProductionOrigin, acac |-> "", acam |-> "POST, OPTIONS",
     acah |-> "Content-Type, Authorization"]

evaluateCandidate(f, e, req, up) ==
    LET candidateName == IF req.body.candidateName.has
                         THEN req.body.candidateName.val ELSE S_yonatan
        message == S_will \o ToLowerCase(candidateName) \o S_fitFor
                       \o req.body.jobDescription.val
    IN IF Falsy(req.body.jobDescription)
       THEN HttpResponse(400, ErrorBody(<<"Missing jobDescription parameter">>), {}, 0)
       ELSE IF originDenied(e, req.origin)
       THEN HttpResponse(403, ErrorBody(<<"Access denied. Unauthorized origin.">>), {}, 0)
       ELSE handleChatRequest(f, e, [message |-> Str(message), context |-> Absent], up)

\* app.options('/api/public/evaluate-candidate')
optionsEvaluateCandidate ==
    HttpResponse(200, [kind |-> "empty"], {}, 0)

EvaluateRoute == "/api/public/evaluate-candidate"

\* the routes in registration order; no match is Express's 404
adapterRoute(f, e, req, up) ==
    CASE req.method = "GET" /\ req.route = "/api/status" ->
            Routed("status", NoCorsHeaders, adapterGetStatus(e))
      [] req.method = "POST" /\ req.route = EvaluateRoute ->
            Routed("evaluate-candidate", EvaluateHeaders, evaluateCandidate(f, e, req, up))
      [] req.method = "OPTIONS" /\ req.route = EvaluateRoute ->
            Routed("options evaluate-candidate", EvaluateHeaders, optionsEvaluateCandidate)
      [] req.method = "POST" /\ req.route = "/api/tools" ->
            Routed("tools", NoCorsHeaders, adapterPostTools(f, req.body))
      [] req.method = "POST" /\ req.route = "/api/chat" ->
            Routed("chat", NoCorsHeaders, handleChatRequest(f, e, req.body, up))
      [] OTHER ->
            Routed("none", NoCorsHeaders, HttpResponse(404, [kind |-> "empty"], {}, 0))

\* the middleware chain: CORS ends the response, or calls next() and the
\* route answers; the client sees the first response sent, every further
\* send on the same request is counted
adapterHandle(f, e, req, up) ==
    LET Merged(first, r) == [r EXCEPT !.headers = MergeHeaders(first, r.headers)]
        Ended(m) == Routed("none", m.headers, HttpResponse(200, [kind |-> "empty"], {}, 0))
        Both(m, r) ==
            [Ended(m) EXCEPT !.handler = r.handler, !.touched = r.touched,
                             !.upstream = r.upstream,
                             !.responses = 1 + r.responses]
        Continued(m, r) == IF m.ended THEN Both(m, r) ELSE Merged(m.headers, r)
        Chain(m) ==
            IF m.next THEN Continued(m, adapterRoute(f, e, req, up))
            ELSE IF m.ended THEN Ended(m)
            ELSE [Ended(m) EXCEPT !.status = 0, !.responses = 0]
    IN Chain(corsMiddleware(e, req))

(***************************************************************************)
(* The serverless adapter, one request at a time.                           *)
(***************************************************************************)
Origins == {"", "http://localhost:3000", ProductionOrigin, "http://evil.example"}

\* the adapter's list_directory and search_files ignore the value of the
\* path beyond its presence
OptDirs == {Absent, Str(<<>>), Str(S_dot), Str(S_docs), Str(S_api), Str(S_dotdot)}

JobDescriptions == {Absent, Str(<<>>), Str(<<"r", "e", "a", "c", "t">>)}
CandidateNames == {Absent, Str(<<"D", "a", "n", "a">>)}

AdapterPaths == {"/api/status", "/api/tools", "/api/chat", EvaluateRoute, "/api/nowhere"}

Adapter(req) ==
    \E r \in {adapterHandle(fs, env, req, req.up)} :
        /\ call' = req
        /\ result' = [status |-> r.status, body |-> r.body, headers |-> r.headers,
                      handler |-> r.handler, responses |-> r.responses]
        /\ touched' = r.touched
        /\ upstream' = r.upstream
        /\ UNCHANGED <<fs, env, cli, tasks, digest, ui>>

AdapterTools(o, body) ==
    Adapter(Request("adapter.tools", "POST", "/api/tools", o, body, NoUpstream))

AdapterStatus ==
    /\ call = NoCall
    /\ \E o \in Origins :
        Adapter(Request("adapter.status", "GET", "/api/status", o, Absent, NoUpstream))

AdapterToolsReadFile ==
    /\ call = NoCall
    /\ \E o \in Origins, p \in OptPaths :
        AdapterTools(o, ToolsBody("read_file", TRUE, p, Absent, Absent))

AdapterToolsListDirectory ==
    /\ call = NoCall
    /\ \E o \in Origins, p \in OptDirs :
        AdapterTools(o, ToolsBody("list_directory", TRUE, p, Absent, Absent))

AdapterToolsSearchFiles ==
    /\ call = NoCall
    /\ \E o \in Origins, p \in OptDirs, pat \in OptPatterns :
        AdapterTools(o, ToolsBody("search_files", TRUE, Absent, p, pat))

AdapterToolsMalformed ==
    /\ call = NoCall
    /\ \E o \in Origins, tool \in {"", "read_file", "analyze_folder"},
          hasParams \in BOOLEAN :
        /\ tool = "read_file" => ~hasParams
        /\ AdapterTools(o, ToolsBody(tool, hasParams, Str(S_resume), Absent, Absent))

AdapterChat ==
    /\ call = NoCall
    /\ \E o \in Origins, m \in Messages, c \in Contexts, up \in UpstreamOutcomes :
        Adapter(Request("adapter.chat", "POST", "/api/chat", o,
                        [message |-> m, context |-> c], up))

AdapterEvaluateCandidate ==
    /\ call = NoCall
    /\ \E o \in Origins, jd \in JobDescriptions, cn \in CandidateNames,
          up \in UpstreamOutcomes :
        Adapter(Request("adapter.evaluate", "POST", EvaluateRoute, o,
                        [jobDescription |-> jd, candidateName |-> cn], up))

AdapterOptions ==
    /\ call = NoCall
    /\ \E o \in Origins, route \in AdapterPaths :
        Adapter(Request("adapter.options", "OPTIONS", route, o, Absent, NoUpstream))

\* a request no route is registered for
AdapterNotFound ==
    /\ call = NoCall
    /\ \E o \in Origins, method \in {"GET", "POST"} :
        Adapter(Request("adapter.notfound", method, "/api/nowhere", o, Absent, NoUpstream))

InitAdapter ==
    /\ fs \in FsChoices
    /\ env \in EnvChoices
    /\ call = NoCall
    /\ result = NoResult
    /\ touched = {}
    /\ upstream = 0
    /\ cli = NoCli
    /\ tasks = NoTasks
    /\ digest = NoDigest
    /\ ui = NoUi

NextAdapter ==
    \/ AdapterStatus
    \/ AdapterToolsReadFile
    \/ AdapterToolsListDirectory
    \/ AdapterToolsSearchFiles
    \/ AdapterToolsMalformed
    \/ AdapterChat
    \/ AdapterEvaluateCandidate
    \/ AdapterOptions
    \/ AdapterNotFound

SpecAdapter == InitAdapter /\ [][NextAdapter]_vars

\* the chat routes of both servers
InitChat == InitAdapter

NextChat ==
    \/ ApiChat
    \/ AdapterChat
    \/ AdapterEvaluateCandidate

SpecChat == InitChat /\ [][NextChat]_vars

(***************************************************************************)
(* Claims about the serverless adapter.                                     *)
(***************************************************************************)
AdapterOps == {"adapter.status", "adapter.tools", "adapter.chat", "adapter.evaluate",
               "adapter.options", "adapter.notfound"}

IsAdapterReadFile ==
    /\ call.op = "adapter.tools"
    /\ call.body.tool = "read_file"
    /\ call.body.hasParams
    /\ ~Falsy(call.body.params.path)

AdapterReadTarget == PathResolve(RestrictFile(call.body.params.path.val))

\* C4: the adapter's read_file answers 400 for a path not ending in '.md',
\* 404 for a '.md' path whose resolved file does not exist and 200 with the
\* file's content otherwise, and never returns the content of a file outside
\* api-resources.
C4_AdapterReadFile ==
    IsAdapterReadFile =>
        /\ IF ~EndsWith(call.body.params.path.val, S_md) THEN Is400Error
           ELSE IF ~Exists(fs, AdapterReadTarget) THEN result.status = 404
           ELSE Is200Result /\ result.body.result[2].content = AdapterReadTarget
        /\ Is200Result =>
              IsDescendantOrSelf(result.body.result[2].content, JailDir)

DisallowedOrigin == call.origin # "" /\ call.origin \notin allowedOrigins(env)

\* C5 as stated: an evaluate-candidate request whose Origin is not in the
\* allow-list is answered 403 whatever its body, and calls nothing upstream.
C5_EvaluateForbidden ==
    (call.op = "adapter.evaluate" /\ DisallowedOrigin) =>
        result.status = 403 /\ upstream = 0

\* C5 (amended): an evaluate-candidate request whose Origin is not in the
\* allow-list calls nothing upstream and is answered 403 when its body
\* carries a non-empty jobDescription, 400 when it does not (the body is
\* checked before the origin).
C5_EvaluateForbiddenAmended ==
    (call.op = "adapter.evaluate" /\ DisallowedOrigin) =>
        /\ upstream = 0
        /\ result.body.kind = "error"
        /\ result.status = IF Falsy(call.body.jobDescription) THEN 400 ELSE 403

\* a disallowed origin with a job description was refused
C5_Witness ==
    /\ call.op = "adapter.evaluate"
    /\ DisallowedOrigin
    /\ ~Falsy(call.body.jobDescription)
    /\ loadClaudeApiKey(env).has
    /\ result.status = 403
    /\ upstream = 0

HasCorsHeader == \E h \in DOMAIN result.headers : result.headers[h] # ""

\* C6 as stated: on every route, a non-OPTIONS response carries an
\* Access-Control-Allow-* header only if the request's Origin is exactly one
\* of allowedOrigins.
C6_CorsOnlyForAllowed ==
    (call.op \in AdapterOps /\ call.method # "OPTIONS") =>
        (HasCorsHeader => call.origin \in allowedOrigins(env))

\* C6 (amended): on every route but POST /api/public/evaluate-candidate, a
\* non-OPTIONS response carries an Access-Control-Allow-* header exactly when
\* the request's Origin is one of allowedOrigins, and then
\* Access-Control-Allow-Origin is that origin; evaluate-candidate always
\* answers with Access-Control-Allow-Origin fixed to the production origin.
C6_CorsOnlyForAllowedAmended ==
    (call.op \in AdapterOps /\ call.method # "OPTIONS") =>
        IF call.op = "adapter.evaluate"
        THEN result.headers.acao = ProductionOrigin
        ELSE /\ HasCorsHeader <=> call.origin \in allowedOrigins(env)
             /\ HasCorsHeader => result.headers.acao = call.origin

\* a tools request from an origin outside the allow-list was answered
\* without any CORS header
C6_Witness ==
    /\ call.op = "adapter.tools"
    /\ DisallowedOrigin
    /\ result.status = 200
    /\ ~HasCorsHeader

KeyBlank == ~env.hasKey \/ \A i \in 1..Len(env.key) : env.key[i] \in {" ", "\n", "\t"}

\* C10: POST /api/chat of either server with a non-empty message and a key
\* that is unset, empty or blank is answered 400 with the error about the
\* missing key; nothing is sent upstream and no fallback or mock answer is
\* returned.
C10_ChatWithoutKey ==
    (call.op \in {"api.chat", "adapter.chat"} /\ ~Falsy(call.body.message) /\ KeyBlank) =>
        /\ Is400Error
        /\ result.body.error[1] \in {ApiKeyMissing, AdapterKeyMissing}
        /\ upstream = 0

\* a chat request with a whitespace-only key was refused before the upstream
\* call it would otherwise have made
C10_Witness ==
    /\ call.op \in {"api.chat", "adapter.chat"}
    /\ ~Falsy(call.body.message)
    /\ env.hasKey /\ env.key = <<" ", " ">>
    /\ call.up.kind = "ok"
    /\ Is400Error
    /\ upstream = 0

(***************************************************************************)
(* Claims about the adapter's upstream failures and about terminal          *)
(* responses.                                                               *)
(***************************************************************************)
\* the request gets as far as the upstream call: key present, message (or
\* job description from an origin that is not refused) present
ChatReachesUpstream ==
    /\ loadClaudeApiKey(env).has
    /\ call.op = "adapter.chat" => ~Falsy(call.body.message)
    /\ call.op = "adapter.evaluate" =>
          ~Falsy(call.body.jobDescription) /\ ~DisallowedOrigin

UpstreamFailures == {"ssl", "econnrefused", "network", "non2xx", "badjson"}

\* C11: in the adapter's chat handling (POST /api/chat and the forwarded
\* evaluate-candidate), once message and key are present, every failure of
\* the upstream call (transport error, non-2xx status, unparsable body) is
\* answered 200 with the fixed fallback paragraph and the fixed usage; no
\* such failure is answered with a 4xx or 5xx status.
C11_UpstreamFailureFallback ==
    (/\ call.op \in {"adapter.chat", "adapter.evaluate"}
     /\ ChatReachesUpstream
     /\ call.up.kind \in UpstreamFailures) =>
        /\ result.status = 200
        /\ result.body.kind = "chat"
        /\ result.body.response = FallbackResponse
        /\ result.body.usage = FixedUsage
        /\ upstream = 1

\* a forwarded evaluate-candidate request whose upstream call came back with
\* a non-2xx status was answered with the fallback
C11_Witness ==
    /\ call.op = "adapter.evaluate"
    /\ ChatReachesUpstream
    /\ call.up.kind = "non2xx"
    /\ result.status = 200
    /\ result.body.response = FallbackResponse

\* both servers, one request at a time
InitHttp == InitAdapter

NextHttp ==
    \/ NextApi
    \/ NextAdapter

SpecHttp == InitHttp /\ [][NextHttp]_vars

HttpOps == {"api.status", "api.tools", "api.chat", "api.mcp"} \cup AdapterOps

readFileContentUnrestricted(f, filePath) ==
    LET At(resolvedPath) ==
            IF FsAccess(f, resolvedPath) # "ok"
            THEN Threw(FsAccess(f, resolvedPath), {resolvedPath})
            ELSE IF FsReadFile(f, resolvedPath) # "ok"
            THEN Threw(FsReadFile(f, resolvedPath), {resolvedPath})
            ELSE Returned([content |-> resolvedPath], {resolvedPath})
    IN At(PathResolve(filePath))

listDirectoryUnrestricted(f, dirPath) ==
    LET Entries(resolvedPath, names) ==
            Returned([i \in 1..Len(names) |-> ListEntry(f, resolvedPath, names[i])],
                     {resolvedPath})
        At(resolvedPath) ==
            IF FsAccess(f, resolvedPath) # "ok"
            THEN Threw(FsAccess(f, resolvedPath), {resolvedPath})
            ELSE IF FsReaddir(f, resolvedPath) # "ok"
            THEN Threw(FsReaddir(f, resolvedPath), {resolvedPath})
            ELSE Entries(resolvedPath, DirEntries(f, resolvedPath))
    IN At(PathResolve(dirPath))

\* the same walk as the hardened searchFiles, started at path.resolve(rootPath)
searchFilesUnrestricted(f, rootPath, pattern) ==
    LET Found(r) == Returned(r.results, r.touched)
    IN Found(search(f, PathResolve(rootPath), pattern))

(***************************************************************************)
(* The command-line chat clients (chat-interface.ts, local-chat.ts).        *)
(* String.prototype.match with the clients' regular expressions: each is    *)
(* an alternation of `word\s+word\s+...(token)`, matched without regard to  *)
(* case at the leftmost position, first alternative first.                  *)
(***************************************************************************)
\* [\w\/\.\-_]
IsPathChar(c) == IsWordChar(c) \/ c \in {"/", ".", "-"}

\* the characters of the captured token: [\w\/\.\-_] or [^\s]
TokChar(c, kind) == IF kind = "path" THEN IsPathChar(c) ELSE ~IsSpace(c)

RECURSIVE RunEnd(_, _, _)
RunEnd(s, i, kind) ==
    IF i <= Len(s) /\ TokChar(s[i], kind) THEN RunEnd(s, i + 1, kind) ELSE i

RECURSIVE SpacesEnd(_, _)
SpacesEnd(s, i) == IF i <= Len(s) /\ IsSpace(s[i]) THEN SpacesEnd(s, i + 1) ELSE i

\* the index after `word\s+` for every word in turn, 0 when they do not match
RECURSIVE WordsEnd(_, _, _)
WordsEnd(s, i, words) ==
    IF words = <<>> THEN i
    ELSE IF /\ i + Len(Head(words)) - 1 <= Len(s)
            /\ ToLowerCase(SubSeq(s, i, i + Len(Head(words)) - 1)) = Head(words)
            /\ SpacesEnd(s, i + Len(Head(words))) > i + Len(Head(words))
         THEN WordsEnd(s, SpacesEnd(s, i + Len(Head(words))), Tail(words))
         ELSE 0

\* the token captured by one alternative at position i, <<>> without a match
CaptureAt(s, i, words, kind) ==
    LET Token(j) == IF j = 0 THEN <<>> ELSE SubSeq(s, j, RunEnd(s, j, kind) - 1)
    IN Token(WordsEnd(s, i, words))

RECURSIVE FirstAlt(_, _, _, _)
FirstAlt(s, i, alts, kind) ==
    LET Pick(c) == IF c # <<>> THEN c ELSE FirstAlt(s, i, Tail(alts), kind)
    IN IF alts = <<>> THEN <<>> ELSE Pick(CaptureAt(s, i, Head(alts), kind))

RECURSIVE MatchFrom(_, _, _, _)
MatchFrom(s, i, alts, kind) ==
    LET Pick(c) == IF c # <<>> THEN c ELSE MatchFrom(s, i + 1, alts, kind)
    IN IF i > Len(s) THEN <<>> ELSE Pick(FirstAlt(s, i, alts, kind))

\* message.match(/.../i): the captured group, <<>> for no match
RegexCapture(s, alts, kind) == MatchFrom(s, 1, alts, kind)

Has(lower, keyword) == Includes(lower, keyword)

\* a detected call: its name and args ({path}, {rootPath, pattern} or
\* {path, single, file} with file = path)
ToolCall(name, path, pattern) ==
    [name |-> name, path |-> path, pattern |-> pattern, single |-> FALSE]

OrDot(p) == IF p = <<>> THEN S_dot ELSE p


\* FileContextChat.detectFunctionCalls: the rules in the order written, each
\* appending at most one call
detectFunctionCalls(message) ==
    LET lower == ToLowerCase(message)
        When(cond, calls) == IF cond THEN calls ELSE <<>>
        Matched(name, m) == When(m # <<>>, <<ToolCall(name, m, <<>>)>>)
        Searched(m) == When(m # <<>>, <<ToolCall("search_files", S_dot, m)>>)
        Fixed(name) == <<ToolCall(name, S_dot, <<>>)>>
        Single(m) ==
            When(m # <<>>,
                 <<[ToolCall("analyze_file_subjects", m, <<>>) EXCEPT !.single = TRUE]>>)
    IN When((Has(lower, <<"w", "h", "a", "t", " ", "f", "o", "l", "d", "e", "r">>) \/ Has(lower, <<"c", "u", "r", "r", "e", "n", "t", " ", "d", "i", "r", "e", "c", "t", "o", "r", "y">>) \/ Has(lower, <<"l", "i", "s", "t">>) \/ Has(lower, <<"s", "h", "o", "w", " ", "d", "i", "r", "e", "c", "t", "o", "r", "y">>) \/ Has(lower, <<"f", "i", "l", "e", "s", " ", "i", "n">>)),
            <<ToolCall("list_directory",
                       OrDot(RegexCapture(message, <<<<<<"i", "n">>>>, <<<<"d", "i", "r", "e", "c", "t", "o", "r", "y">>>>>>, "path")), <<>>)>>)
       \o When((Has(lower, <<"r", "e", "a", "d">>) \/ Has(lower, <<"s", "h", "o", "w">>) \/ Has(lower, <<"c", "o", "n", "t", "e", "n", "t">>)),
               Matched("read_file",
                       RegexCapture(message, <<<<<<"r", "e", "a", "d">>, <<"m", "y">>>>, <<<<"r", "e", "a", "d">>>>, <<<<"s", "h", "o", "w">>>>, <<<<"c", "o", "n", "t", "e", "n", "t">>, <<"o", "f">>>>>>, "token")))
       \o When((Has(lower, <<"s", "e", "a", "r", "c", "h">>) \/ Has(lower, <<"f", "i", "n", "d">>)),
               Searched(RegexCapture(message, <<<<<<"s", "e", "a", "r", "c", "h">>, <<"f", "o", "r">>>>, <<<<"f", "i", "n", "d">>>>>>, "token")))
       \o When((Has(lower, <<"s", "u", "m", "m", "a", "r", "i", "z", "e">>) \/ Has(lower, <<"s", "u", "m", "m", "a", "r", "y">>) \/ Has(lower, <<"o", "v", "e", "r", "v", "i", "e", "w">>)),
               IF (Has(lower, <<"a", "l", "l", " ", "f", "i", "l", "e", "s">>) \/ Has(lower, <<"e", "v", "e", "r", "y", " ", "f", "i", "l", "e">>) \/ Has(lower, <<"a", "l", "l", " ", "c", "o", "n", "t", "e", "n", "t">>))
               THEN Fixed("summarize_all_files")
               ELSE Matched("summarize_file",
                            RegexCapture(message, <<<<<<"s", "u", "m", "m", "a", "r", "i", "z", "e">>>>, <<<<"s", "u", "m", "m", "a", "r", "y">>, <<"o", "f">>>>, <<<<"o", "v", "e", "r", "v", "i", "e", "w">>, <<"o", "f">>>>>>, "token")))
       \o When((Has(lower, <<"s", "u", "b", "j", "e", "c", "t">>) \/ Has(lower, <<"t", "o", "p", "i", "c">>) \/ Has(lower, <<"a", "b", "o", "u", "t">>)) \/ (Has(lower, <<"w", "h", "a", "t">>) /\ Has(lower, <<"f", "i", "l", "e">>)),
               IF (Has(lower, <<"f", "i", "l", "e", "s">>) \/ Has(lower, <<"a", "l", "l">>))
               THEN Fixed("analyze_file_subjects")
               ELSE Single(RegexCapture(message, <<<<<<"s", "u", "b", "j", "e", "c", "t">>, <<"o", "f">>>>, <<<<"t", "o", "p", "i", "c">>, <<"o", "f">>>>, <<<<"a", "b", "o", "u", "t">>>>>>, "token")))
       \o When((Has(lower, <<"i", "m", "p", "o", "r", "t", "a", "n", "t">>) \/ Has(lower, <<"k", "e", "y">>) \/ Has(lower, <<"m", "a", "i", "n">>)) /\ (Has(lower, <<"d", "a", "t", "a">>) \/ Has(lower, <<"i", "n", "f", "o", "r", "m", "a", "t", "i", "o", "n">>) \/ Has(lower, <<"c", "o", "n", "t", "e", "n", "t">>)),
               Fixed("extract_key_information"))
       \o When((Has(lower, <<"y", "e", "a", "r", "s", " ", "o", "f", " ", "e", "x", "p", "e", "r", "i", "e", "n", "c", "e">>) \/ Has(lower, <<"h", "o", "w", " ", "l", "o", "n", "g">>) \/ Has(lower, <<"e", "x", "p", "e", "r", "i", "e", "n", "c", "e", " ", "l", "e", "v", "e", "l">>) \/ Has(lower, <<"s", "e", "n", "i", "o", "r", "i", "t", "y">>)),
               Fixed("extract_experience_level"))
       \o When(((Has(lower, <<"r", "e", "a", "c", "t", " ", "e", "x", "p", "e", "r", "i", "e", "n", "c", "e">>) \/ Has(lower, <<"r", "e", "a", "c", "t", " ", "p", "r", "o", "j", "e", "c", "t", "s">>) \/ Has(lower, <<"r", "e", "a", "c", "t", " ", "s", "k", "i", "l", "l", "s">>)) \/ (Has(lower, <<"r", "e", "a", "c", "t">>) /\ (Has(lower, <<"h", "o", "w">>) \/ Has(lower, <<"w", "h", "a", "t">>)))),
               Fixed("extract_react_experience"))
       \o When(((Has(lower, <<"t", "y", "p", "e", "s", "c", "r", "i", "p", "t", " ", "e", "x", "p", "e", "r", "i", "e", "n", "c", "e">>) \/ Has(lower, <<"t", "y", "p", "e", "s", "c", "r", "i", "p", "t", " ", "s", "k", "i", "l", "l", "s">>)) \/ (Has(lower, <<"t", "y", "p", "e", "s", "c", "r", "i", "p", "t">>) /\ (Has(lower, <<"h", "o", "w">>) \/ Has(lower, <<"w", "h", "a", "t">>)))),
               Fixed("extract_typescript_experience"))
       \o When((Has(lower, <<"m", "i", "c", "r", "o", " ", "f", "r", "o", "n", "t", "e", "n", "d">>) \/ Has(lower, <<"m", "i", "c", "r", "o", "f", "r", "o", "n", "t", "e", "n", "d">>) \/ Has(lower, <<"a", "r", "c", "h", "i", "t", "e", "c", "t", "u", "r", "e", " ", "e", "x", "p", "e", "r", "i", "e", "n", "c", "e">>) \/ Has(lower, <<"s", "y", "s", "t", "e", "m", " ", "d", "e", "s", "i", "g", "n">>)),
               Fixed("extract_architecture_experience"))
       \o When((Has(lower, <<"p", "e", "r", "f", "o", "r", "m", "a", "n", "c", "e", " ", "o", "p", "t", "i", "m", "i", "z", "a", "t", "i", "o", "n">>) \/ Has(lower, <<"p", "e", "r", "f", "o", "r", "m", "a", "n", "c", "e", " ", "i", "m", "p", "r", "o", "v", "e", "m", "e", "n", "t", "s">>) \/ Has(lower, <<"l", "o", "a", "d", " ", "t", "i", "m", "e">>) \/ Has(lower, <<"o", "p", "t", "i", "m", "i", "z", "a", "t", "i", "o", "n">>)),
               Fixed("extract_performance_experience"))
       \o When((Has(lower, <<"a", "/", "b", " ", "t", "e", "s", "t", "i", "n", "g">>) \/ Has(lower, <<"a", "b", " ", "t", "e", "s", "t", "i", "n", "g">>) \/ Has(lower, <<"e", "x", "p", "e", "r", "i", "m", "e", "n", "t", "a", "t", "i", "o", "n">>) \/ Has(lower, <<"c", "o", "n", "v", "e", "r", "s", "i", "o", "n", " ", "o", "p", "t", "i", "m", "i", "z", "a", "t", "i", "o", "n">>)),
               Fixed("extract_testing_experience"))
       \o When((Has(lower, <<"t", "e", "a", "m", " ", "l", "e", "a", "d">>) \/ Has(lower, <<"l", "e", "a", "d", "e", "r", "s", "h", "i", "p">>) \/ Has(lower, <<"m", "a", "n", "a", "g", "i", "n", "g", " ", "t", "e", "a", "m">>) \/ Has(lower, <<"s", "c", "r", "u", "m", " ", "m", "a", "s", "t", "e", "r">>)),
               Fixed("extract_leadership_experience"))
       \o When((Has(lower, <<"c", "u", "r", "r", "e", "n", "t", " ", "r", "o", "l", "e">>) \/ Has(lower, <<"v", "i", "m", "e", "o">>) \/ Has(lower, <<"l", "a", "t", "e", "s", "t", " ", "p", "o", "s", "i", "t", "i", "o", "n">>) \/ Has(lower, <<"r", "e", "c", "e", "n", "t", " ", "w", "o", "r", "k">>)),
               Fixed("extract_current_role_details"))
       \o When((Has(lower, <<"o", "u", "t", "p", "u", "t">>) \/ Has(lower, <<"s", "h", "o", "w">>)) /\ Has(lower, <<"a", "l", "l">>) /\ (Has(lower, <<"c", "o", "n", "t", "e", "n", "t">>) \/ Has(lower, <<"f", "i", "l", "e", "s">>)),
               Fixed("summarize_all_files"))


\* LocalFileContextChat.detectFunctionCalls
detectFunctionCallsLocal(message) ==
    LET lower == ToLowerCase(message)
        When(cond, calls) == IF cond THEN calls ELSE <<>>
        Matched(name, m) == When(m # <<>>, <<ToolCall(name, m, <<>>)>>)
        Searched(m) == When(m # <<>>, <<ToolCall("search_files", S_dot, m)>>)
    IN When((Has(lower, <<"l", "i", "s", "t">>) \/ Has(lower, <<"s", "h", "o", "w">>) \/ Has(lower, <<"d", "i", "r", "e", "c", "t", "o", "r", "y">>) \/ Has(lower, <<"f", "o", "l", "d", "e", "r">>)),
            <<ToolCall("list_directory",
                       OrDot(RegexCapture(message, <<<<<<"i", "n">>>>, <<<<"d", "i", "r", "e", "c", "t", "o", "r", "y">>>>, <<<<"f", "o", "l", "d", "e", "r">>>>>>, "token")), <<>>)>>)
       \o When((Has(lower, <<"r", "e", "a", "d">>) \/ Has(lower, <<"s", "h", "o", "w">>) \/ Has(lower, <<"c", "o", "n", "t", "e", "n", "t">>)),
               Matched("read_file",
                       RegexCapture(message, <<<<<<"r", "e", "a", "d">>>>, <<<<"s", "h", "o", "w">>>>, <<<<"c", "o", "n", "t", "e", "n", "t">>, <<"o", "f">>>>>>, "token")))
       \o When((Has(lower, <<"s", "e", "a", "r", "c", "h">>) \/ Has(lower, <<"f", "i", "n", "d">>)),
               Searched(RegexCapture(message, <<<<<<"s", "e", "a", "r", "c", "h">>, <<"f", "o", "r">>>>, <<<<"f", "i", "n", "d">>>>>>, "token")))

\* the lines typed at the prompt
Lines ==
    {<<"h", "i">>,
     <<"q", "u", "i", "t">>,
     <<" ", "E", "X", "I", "T", " ">>,
     <<"q", "u", "i", "t", " ", "n", "o", "w">>,
     <<"l", "i", "s", "t", " ", "f", "i", "l", "e", "s", " ", "i", "n", " ", "d", "o", "c", "s">>,
     <<"r", "e", "a", "d", " ", "a", "p", "i", "-", "r", "e", "s", "o", "u", "r", "c", "e", "s", "/", "r", "e", "s", "u", "m", "e", ".", "m", "d">>,
     <<"s", "h", "o", "w", " ", "d", "o", "c", "s", " ", "a", "n", "d", " ", "f", "i", "n", "d", " ", "m", "d">>,
     <<"r", "e", "a", "c", "t", " ", "e", "x", "p", "e", "r", "i", "e", "n", "c", "e">>,
     <<"s", "u", "m", "m", "a", "r", "i", "z", "e", " ", "a", "l", "l", " ", "f", "i", "l", "e", "s">>,
     <<"h", "e", "l", "p">>,
     <<"w", "h", "a", "t", " ", "i", "s", " ", "i", "n", " ", "t", "h", "i", "s", " ", "f", "o", "l", "d", "e", "r", "?">>,
     <<"W", "h", "a", "t", " ", "f", "i", "l", "e", "s", " ", "a", "r", "e", " ", "i", "n", " ", "m", "y", " ", "c", "u", "r", "r", "e", "n", "t", " ", "d", "i", "r", "e", "c", "t", "o", "r", "y", "?">>,
     <<"f", "i", "n", "d", " ", "h", "i", "s", "t", "o", "r", "y">>,
     <<"a", "n", "a", "l", "y", "z", "e", " ", "m", "y", " ", "p", "r", "o", "j", "e", "c", "t">>}

S_quit == <<"q", "u", "i", "t">>
S_exit == <<"e", "x", "i", "t">>
S_resumeWord == <<"r", "e", "s", "u", "m", "e">>
S_pdf == <<"p", "d", "f">>
S_dotPdf == <<".", "p", "d", "f">>
S_dotJson == <<".", "j", "s", "o", "n">>
S_json == <<"j", "s", "o", "n">>
S_fetchFailed == <<"f", "e", "t", "c", "h", " ", "f", "a", "i", "l", "e", "d">>
S_401 == <<"4", "0", "1">>
S_429 == <<"4", "2", "9">>

\* the messages of the errors the upstream call can end with
ErrFetchFailed == <<"f", "e", "t", "c", "h", " ", "f", "a", "i", "l", "e", "d">>
ErrUnauthorized == <<"C", "l", "a", "u", "d", "e", " ", "A", "P", "I", " ", "e", "r", "r", "o", "r", ":", " ", "4", "0", "1", " ", "U", "n", "a", "u", "t", "h", "o", "r", "i", "z", "e", "d">>
ErrRateLimited == <<"C", "l", "a", "u", "d", "e", " ", "A", "P", "I", " ", "e", "r", "r", "o", "r", ":", " ", "4", "2", "9", " ", "T", "o", "o", " ", "M", "a", "n", "y", " ", "R", "e", "q", "u", "e", "s", "t", "s">>
ErrServer == <<"C", "l", "a", "u", "d", "e", " ", "A", "P", "I", " ", "e", "r", "r", "o", "r", ":", " ", "5", "0", "0", " ", "I", "n", "t", "e", "r", "n", "a", "l", " ", "S", "e", "r", "v", "e", "r", " ", "E", "r", "r", "o", "r">>
ErrBadJson == <<"U", "n", "e", "x", "p", "e", "c", "t", "e", "d", " ", "t", "o", "k", "e", "n", " ", "<", " ", "i", "n", " ", "J", "S", "O", "N">>

S_hello == <<"h", "e", "l", "l", "o">>
S_hi == <<"h", "i">>
S_hey == <<"h", "e", "y">>
S_analyze == <<"a", "n", "a", "l", "y", "z", "e">>
S_project == <<"p", "r", "o", "j", "e", "c", "t">>
S_structure == <<"s", "t", "r", "u", "c", "t", "u", "r", "e">>

\* ANTHROPIC_API_KEY as the command-line client loads it: undefined unless
\* set and not blank, trimmed
loadApiKey(e) ==
    IF e.hasKey /\ e.key # <<>> /\ Trim(e.key) # <<>> THEN Str(Trim(e.key)) ELSE Absent

\* how the promise of an async method settles, with the paths it handed to
\* the filesystem on the way
Resolved(text, paths) == [state |-> "resolved", text |-> text, touched |-> paths]
Rejected(msg, paths) == [state |-> "rejected", text |-> msg, touched |-> paths]

\* a library call inside executeFunction's try/catch: the formatted result,
\* or 'Error executing <name>: <message>' as an ordinary return value
Caught(name, head, arg, r) ==
    IF r.status = "ok" THEN Resolved(<<head, arg, r.value>>, r.touched)
    ELSE Resolved(<<"Error executing ", name, r.status>>, r.touched)

\* search_files never fails: the matches, or the sentence for none
FoundText(fc, r) ==
    IF Len(r.value) > 0
    THEN Resolved(<<"Found ", Len(r.value), fc.pattern, r.value>>, r.touched)
    ELSE Resolved(<<"No files found matching ", fc.pattern, fc.path>>, r.touched)

\* summarizeAllFiles, analyzeFileSubjects on a directory and
\* extractKeyInformation: validatePath, listDirectory, then every regular
\* file read inside its own try/catch
digestDirectory(f, dirPath) ==
    LET Files(l) == SelectSeq(l.value, LAMBDA item : item.type = "file")
        Listed(l) ==
            IF l.status # "ok" THEN l
            ELSE Returned([i \in 1..Len(Files(l)) |-> Files(l)[i].name],
                          l.touched \cup {Files(l)[i].path : i \in 1..Len(Files(l))})
        At(v) ==
            IF v.threw THEN Threw(AccessDenied, {})
            ELSE Listed(listDirectory(f, PathStr(v.path)))
    IN At(validatePath(OrApiResources(dirPath)))

\* analyzeFileSubjects with {single, file}: validatePath of the directory
\* argument, then the file read inside a try/catch that returns the error
\* as text
analyzeFileSubjectsSingle(f, file) ==
    LET At(v) ==
            IF v.threw THEN Threw(AccessDenied, {})
            ELSE Returned(<<FsReadFile(f, v.path)>>, {v.path})
    IN At(validatePath(OrApiResources(file)))

ExtractTools ==
    {"extract_experience_level", "extract_react_experience",
     "extract_typescript_experience", "extract_architecture_experience",
     "extract_performance_experience", "extract_testing_experience",
     "extract_leadership_experience", "extract_current_role_details"}

\* executeFunction outside mock mode: the switch inside try/catch
executeReal(f, fc) ==
    CASE fc.name = "read_file" ->
            Caught(fc.name, "File content of ", fc.path,
                   readFileContent(f, fc.path))
      [] fc.name = "list_directory" ->
            Caught(fc.name, "Contents of ", fc.path, listDirectory(f, fc.path))
      [] fc.name = "search_files" ->
            FoundText(fc, searchFiles(f, fc.path, fc.pattern))
      [] fc.name = "analyze_folder" ->
            Caught(fc.name, "Folder Analysis for ", fc.path,
                   analyzeFolder(f, fc.path))
      [] fc.name = "summarize_file" ->
            Caught(fc.name, "", fc.path, summarizeFile(f, fc.path))
      [] fc.name \in {"summarize_all_files", "extract_key_information"} ->
            Caught(fc.name, "", fc.path, digestDirectory(f, fc.path))
      [] fc.name = "analyze_file_subjects" ->
            Caught(fc.name, "", fc.path,
                   IF fc.single THEN analyzeFileSubjectsSingle(f, fc.path)
                   ELSE digestDirectory(f, fc.path))
      [] fc.name \in ExtractTools ->
            Resolved(<<"", fc.name>>, {})
      [] OTHER -> Resolved(<<"Unknown function: ", fc.name>>, {})

\* the fabricated data of mock mode
generateMockFileData(fc) ==
    CASE fc.name = "read_file" ->
            <<"File content of ", fc.path,
              IF Includes(fc.path, S_resumeWord) \/ Includes(fc.path, S_dotPdf)
              THEN "MOCK PDF CONTENT"
              ELSE IF Includes(fc.path, S_dotJson) THEN "mock-project"
              ELSE "MOCK FILE CONTENT">>
      [] fc.name = "list_directory" ->
            <<"Contents of ", OrApiResources(fc.path), "mock-document.pdf">>
      [] fc.name = "search_files" ->
            <<"Found ",
              IF Includes(ToLowerCase(fc.pattern), S_pdf) THEN 2
              ELSE IF Includes(ToLowerCase(fc.pattern), S_json) THEN 2 ELSE 1,
              fc.pattern,
              IF Includes(ToLowerCase(fc.pattern), S_pdf) THEN "mock-document.pdf"
              ELSE IF Includes(ToLowerCase(fc.pattern), S_json) THEN "config.json"
              ELSE "example.txt">>
      [] fc.name = "analyze_folder" ->
            <<"Folder Analysis for ", OrApiResources(fc.path), "Total items: 4">>
      [] fc.name = "summarize_file" -> <<"", fc.path, "MOCK FILE CONTENT">>
      [] fc.name \in {"summarize_all_files", "analyze_file_subjects",
                        "extract_key_information"} \cup ExtractTools ->
            <<"", fc.name, "mock">>
      [] OTHER -> <<"Mock: Unknown function ", fc.name>>

\* executeFunction going to the library whatever the mode
executeFunctionAlwaysReal(f, mock, fc) == executeReal(f, fc)

\* FileContextChat.executeFunction
executeFunction(f, mock, fc) ==
    IF mock THEN Resolved(generateMockFileData(fc), {}) ELSE executeReal(f, fc)

\* LocalFileContextChat.executeFunction, on its own unrestricted copies
executeFunctionLocal(f, fc) ==
    CASE fc.name = "read_file" ->
            Caught(fc.name, "File content of ", fc.path,
                   readFileContentUnrestricted(f, fc.path))
      [] fc.name = "list_directory" ->
            Caught(fc.name, "Contents of ", fc.path,
                   listDirectoryUnrestricted(f, fc.path))
      [] fc.name = "search_files" ->
            FoundText(fc, searchFilesUnrestricted(f, fc.path, fc.pattern))
      [] OTHER -> Resolved(<<"Unknown function: ", fc.name>>, {})

\* what a model request of a command-line client ends with
CliOutcomes ==
    {[kind |-> k, text |-> <<>>] :
        k \in {"fetchfailed", "http401", "http429", "http500", "badjson", "ok"}}
    \cup {[kind |-> "ok", text |-> <<"o", "k", ".">>]}

ErrorMessage(kind) ==
    CASE kind = "fetchfailed" -> ErrFetchFailed
      [] kind = "http401" -> ErrUnauthorized
      [] kind = "http429" -> ErrRateLimited
      [] kind = "http500" -> ErrServer
      [] OTHER -> ErrBadJson

\* generateMockResponse: greeting, analysis of the executed calls, suggestion
\* or the help text
generateMockResponse(message, hasResults, executedCalls) ==
    LET lower == ToLowerCase(message) IN
    IF Has(lower, S_hello) \/ Has(lower, S_hi) \/ Has(lower, S_hey)
    THEN <<"greeting">>
    ELSE IF hasResults
    THEN <<"analysis">> \o [i \in 1..Len(executedCalls) |-> executedCalls[i].name]
    ELSE IF Has(lower, S_analyze) \/ Has(lower, S_project) \/ Has(lower, S_structure)
    THEN <<"suggestion">>
    ELSE <<"help">>

\* the catch block of FileContextChat.chat: the message with its hints
chatErrorMessage(msg) ==
    <<"Error: ", msg>>
    \o (IF Includes(msg, S_fetchFailed) THEN <<"This might be due to:">> ELSE <<>>)
    \o (IF Includes(msg, S_401) THEN <<"Invalid API key.">> ELSE <<>>)
    \o (IF Includes(msg, S_429) THEN <<"Rate limit exceeded.">> ELSE <<>>)

\* what the text of a chat that ended in its catch block begins with
ErrorHeads == {"Error: ", "Ollama Error: "}

ModelStep(state, text, fetched, appended) ==
    [state |-> state, text |-> text, fetched |-> fetched, appended |-> appended]

\* chat with the two turns pushed before the request to the model
chatModelPushFirst(mock, message, calls, executedCalls, out) ==
    IF mock
    THEN ModelStep("resolved",
                   generateMockResponse(message, Len(calls) > 0, executedCalls), 0, TRUE)
    ELSE IF out.kind = "ok"
    THEN ModelStep("resolved", IF out.text = <<>> THEN NoResponse ELSE out.text, 1, TRUE)
    ELSE ModelStep("resolved", chatErrorMessage(ErrorMessage(out.kind)), 1, TRUE)

\* FileContextChat.chat after the tool calls: the mock generator or the
\* request to the model, the conversation log, the catch block
chatModel(mock, message, calls, executedCalls, out) ==
    IF mock
    THEN ModelStep("resolved",
                   generateMockResponse(message, Len(calls) > 0, executedCalls), 0, TRUE)
    ELSE IF out.kind = "ok"
    THEN ModelStep("resolved", IF out.text = <<>> THEN NoResponse ELSE out.text, 1, TRUE)
    ELSE ModelStep("resolved", chatErrorMessage(ErrorMessage(out.kind)), 1, FALSE)

NoResponseOllama == "No response from Ollama"

\* callOllama without its try/catch
callOllamaNoCatch(out) ==
    IF out.kind = "ok"
    THEN ModelStep("resolved", IF out.text = <<>> THEN <<NoResponseOllama>> ELSE out.text,
                   1, FALSE)
    ELSE ModelStep("rejected", ErrorMessage(out.kind), 1, FALSE)

\* LocalFileContextChat.callOllama: every failure becomes the returned text
callOllama(out) ==
    IF out.kind = "ok"
    THEN ModelStep("resolved", IF out.text = <<>> THEN <<NoResponseOllama>> ELSE out.text,
                   1, FALSE)
    ELSE ModelStep("resolved",
                   <<"Ollama Error: ", ErrorMessage(out.kind),
                     "Make sure Ollama is running: ollama serve">>,
                   1, FALSE)

\* testConnection: TRUE without a request in mock mode, FALSE without a key,
\* else one request
testConnection(mock, hasKey, outcome) ==
    IF mock THEN [ok |-> TRUE, fetched |-> 0]
    ELSE IF ~hasKey THEN [ok |-> FALSE, fetched |-> 0]
    ELSE [ok |-> outcome = "ok", fetched |-> 1]

\* `for (const call of functionCalls)` taken from the back
NextCallFromEnd(done, n) == n - done

\* `for (const call of functionCalls)`: the index of the call executed next
NextCall(done, n) == done + 1

\* question.toLowerCase().trim() === 'quit' || ... === 'exit'
IsQuit(line) == Trim(ToLowerCase(line)) \in {S_quit, S_exit}

(***************************************************************************)
(* main() of the command-line clients: construct, test the connection,      *)
(* then prompt, chat and print until quit.  touched and upstream count the  *)
(* filesystem paths and the network requests of the client object.          *)
(***************************************************************************)
MaxTurns == 2

NoReply == [state |-> "none", text |-> <<>>]

CliStart(client, flag) ==
    [pc |-> "start", client |-> client, flag |-> flag, useMockApi |-> FALSE,
     hasKey |-> FALSE, line |-> <<>>, calls |-> <<>>, done |-> 0, order |-> <<>>,
     context |-> <<>>, log |-> <<>>, conversation |-> <<>>, replied |-> 0,
     reply |-> NoReply, turns |-> 0]

InitCli ==
    /\ fs \in {FsBase, FsLocked}
    /\ env \in {e \in EnvChoices : ~e.production}
    /\ call = NoCall
    /\ result = NoResult
    /\ touched = {}
    /\ upstream = 0
    /\ cli \in {CliStart("claude", TRUE), CliStart("claude", FALSE),
                CliStart("local", FALSE)}
    /\ tasks = NoTasks
    /\ digest = NoDigest
    /\ ui = NoUi

\* new FileContextChat(useMock) / new LocalFileContextChat()
CliConstruct ==
    /\ cli.pc = "start"
    /\ cli' = IF cli.client = "claude"
              THEN [cli EXCEPT !.pc = "connect",
                               !.useMockApi = cli.flag \/ ~loadApiKey(env).has,
                               !.hasKey = ~cli.flag /\ loadApiKey(env).has]
              ELSE [cli EXCEPT !.pc = "prompt"]
    /\ touched' = {}
    /\ upstream' = 0
    /\ UNCHANGED <<fs, env, call, result, tasks, digest, ui>>

CliTestConnection ==
    /\ cli.pc = "connect"
    /\ \E outcome \in {"ok", "non2xx", "network"} :
        \E r \in {testConnection(cli.useMockApi, cli.hasKey, outcome)} :
            /\ cli' = [cli EXCEPT !.pc = IF r.ok \/ cli.flag THEN "prompt" ELSE "asked"]
            /\ upstream' = upstream + r.fetched
    /\ UNCHANGED <<fs, env, call, result, touched, tasks, digest, ui>>

\* 'Would you like to use mock mode instead? (y/n)'
CliAnswerFallback ==
    /\ cli.pc = "asked"
    /\ \E answer \in {<<"y">>, <<"Y", "e", "s">>, <<"n">>, <<>>} :
        cli' = IF StartsWith(ToLowerCase(answer), <<"y">>)
               THEN CliStart("claude", TRUE)
               ELSE [cli EXCEPT !.pc = "exited"]
    /\ UNCHANGED <<fs, env, call, result, touched, upstream, tasks, digest, ui>>

CliReadLine ==
    /\ cli.pc = "prompt"
    /\ \E line \in Lines :
        /\ cli.turns < MaxTurns \/ IsQuit(line)
        /\ cli' = IF IsQuit(line)
                  THEN [cli EXCEPT !.pc = "ended", !.line = line]
                  ELSE [cli EXCEPT !.pc = "detect", !.line = line, !.calls = <<>>,
                                   !.done = 0, !.order = <<>>, !.context = <<>>,
                                   !.log = <<>>, !.reply = NoReply]
    /\ UNCHANGED <<fs, env, call, result, touched, upstream, tasks, digest, ui>>

CliDetect ==
    /\ cli.pc = "detect"
    /\ \E calls \in {IF cli.client = "claude" THEN detectFunctionCalls(cli.line)
                     ELSE detectFunctionCallsLocal(cli.line)} :
        cli' = [cli EXCEPT !.calls = calls, !.log = <<"detect">>,
                           !.pc = IF calls = <<>> THEN "model" ELSE "exec"]
    /\ UNCHANGED <<fs, env, call, result, touched, upstream, tasks, digest, ui>>

\* one turn of the loop over the detected calls: await executeFunction, add
\* the result to the context
CliExecute ==
    /\ cli.pc = "exec"
    /\ \E k \in {NextCall(cli.done, Len(cli.calls))} :
        \E r \in {IF cli.client = "claude"
                  THEN executeFunction(fs, cli.useMockApi, cli.calls[k])
                  ELSE executeFunctionLocal(fs, cli.calls[k])} :
            /\ cli' = [cli EXCEPT
                          !.done = @ + 1,
                          !.order = Append(@, k),
                          !.context = Append(@, [name |-> cli.calls[k].name,
                                                 result |-> r.text]),
                          !.log = Append(@, "tool"),
                          !.pc = IF cli.done + 1 = Len(cli.calls) THEN "model"
                                 ELSE "exec"]
            /\ touched' = touched \cup r.touched
    /\ UNCHANGED <<fs, env, call, result, upstream, tasks, digest, ui>>

\* the model step: mock generator, request to the model, or callOllama
CliModel ==
    /\ cli.pc = "model"
    /\ \E out \in CliOutcomes :
        \E r \in {IF cli.client = "claude"
                  THEN chatModel(cli.useMockApi, cli.line, cli.calls, cli.context, out)
                  ELSE callOllama(out)} :
            /\ cli' = [cli EXCEPT
                          !.reply = [state |-> r.state, text |-> r.text],
                          !.conversation = @ \o (IF r.appended
                                                    THEN <<"user", "assistant">>
                                                    ELSE <<>>),
                          !.replied = @ + (IF r.state = "resolved"
                                                /\ r.text[1] \notin ErrorHeads
                                             THEN 1 ELSE 0),
                          !.log = @ \o <<"model">>
                                    \o (IF r.appended THEN <<"append">> ELSE <<>>),
                          !.pc = "return"]
            /\ upstream' = upstream + r.fetched
    /\ UNCHANGED <<fs, env, call, result, touched, tasks, digest, ui>>

\* chat() settles: main prints the reply and prompts again, or the rejection
\* leaves the loop through main().catch
CliReturn ==
    /\ cli.pc = "return"
    /\ cli' = IF cli.reply.state = "resolved"
              THEN [cli EXCEPT !.pc = "prompt", !.turns = @ + 1,
                               !.log = Append(@, "return")]
              ELSE [cli EXCEPT !.pc = "crashed"]
    /\ UNCHANGED <<fs, env, call, result, touched, upstream, tasks, digest, ui>>

NextCli ==
    \/ CliConstruct
    \/ CliTestConnection
    \/ CliAnswerFallback
    \/ CliReadLine
    \/ CliDetect
    \/ CliExecute
    \/ CliModel
    \/ CliReturn

SpecCli == InitCli /\ [][NextCli]_vars

(***************************************************************************)
(* Claims about the command-line clients.                                   *)
(***************************************************************************)
CliRunning == cli.pc \notin {"none", "start"}

IsErrorReply == cli.reply.text # <<>> /\ cli.reply.text[1] \in {"Error: ", "Ollama Error: "}

\* C13: in both command-line clients chat(message) resolves to a string and
\* never rejects, whatever the message and whatever fails in tool execution
\* or in the model request; the loop prompts again after every chat error
\* and ends only on a line equal to 'quit' or 'exit' after trimming and
\* lower-casing.
C13_ChatNeverRejects ==
    CliRunning =>
        /\ cli.reply.state # "rejected"
        /\ cli.pc # "crashed"
        /\ cli.pc = "ended" => Trim(ToLowerCase(cli.line)) \in {S_quit, S_exit}
        /\ (cli.log # <<>> /\ cli.log[Len(cli.log)] = "return") =>
              /\ cli.reply.state = "resolved"
              /\ cli.pc = "prompt" \/ (cli.pc = "ended" /\ IsQuit(cli.line))

\* after a failed model request the error text was returned and the client
\* is at the prompt again
C13_Witness ==
    /\ CliRunning
    /\ cli.client = "local"
    /\ cli.pc = "prompt"
    /\ cli.turns = 1
    /\ IsErrorReply

LogRank(event) ==
    CASE event = "detect" -> 0
      [] event = "tool" -> 1
      [] event = "model" -> 2
      [] event = "append" -> 3
      [] OTHER -> 4

\* C16: within one chat() call the detected tool calls run one at a time in
\* the order detected, the model (or the mock generator) is invoked only
\* after the last of them with their results in that order in its context,
\* and the reply is returned, and the conversation log appended, only after
\* the model step.
C16_ChatStepOrder ==
    CliRunning =>
        /\ cli.order = [i \in 1..Len(cli.order) |-> i]
        /\ Len(cli.context) <= Len(cli.calls)
        /\ \A i \in 1..Len(cli.context) : cli.context[i].name = cli.calls[i].name
        /\ \A i \in 1..Len(cli.log) :
              /\ cli.log[i] = "model" => cli.done = Len(cli.calls)
              /\ \A j \in i..Len(cli.log) : LogRank(cli.log[i]) <= LogRank(cli.log[j])
              /\ cli.log[i] \in {"append", "return"} =>
                    \E j \in 1..(i - 1) : cli.log[j] = "model"

\* a chat with several detected calls of different tools ran to its return
C16_Witness ==
    /\ CliRunning
    /\ Len(cli.calls) >= 2
    /\ cli.calls[1].name # cli.calls[2].name
    /\ cli.order = [i \in 1..Len(cli.calls) |-> i]
    /\ cli.log # <<>> /\ cli.log[Len(cli.log)] = "return"

(***************************************************************************)
(* Claims about searchFiles and listDirectory of the library.               *)
(***************************************************************************)
\* the directory a hardened searchFiles or listDirectory call starts from
\* (<<>> when validation rejects the path)
CallRoot == validatePath(OrApiResources(call.path)).path

CallRootRejected == validatePath(OrApiResources(call.path)).threw

\* the names of the directories strictly below root that contain p
DirsBelow(root, p) == {p[i] : i \in (Len(root) + 1)..(Len(p) - 1)}

IsHiddenName(name) == name # <<>> /\ name[1] = "."

\* C17: no path returned by searchFiles lies beneath a directory below the
\* search root whose name starts with '.' or is exactly 'node_modules'.
C17_SearchSkipsHiddenAndNodeModules ==
    (call.op = "searchFiles" /\ ~CallRootRejected) =>
        \A i \in 1..Len(result.value) :
            \A name \in DirsBelow(CallRoot, result.value[i]) :
                ~IsHiddenName(name) /\ name # S_nodeModules

\* the directories the walk from root reads: root itself and every
\* directory below it that is reached through readable directories whose
\* names below root do not start with '.'
WalkedDirs(f, root) ==
    {d \in f.dirs :
        /\ IsDescendantOrSelf(d, root)
        /\ \A k \in Len(root)..Len(d) : FsReaddir(f, SubSeq(d, 1, k)) = "ok"
        /\ \A k \in (Len(root) + 1)..Len(d) : ~IsHiddenName(d[k])}

\* the claim's own lower-casing, letter by letter
LowerCased(s) == [i \in 1..Len(s) |-> LowerChar(s[i])]

\* the regular files of the walked tree whose lower-cased name contains the
\* lower-cased pattern as a literal substring
WalkedMatches(f, root, pattern) ==
    {p \in f.files :
        /\ p # <<>>
        /\ SubSeq(p, 1, Len(p) - 1) \in WalkedDirs(f, root)
        /\ Includes(LowerCased(p[Len(p)]), LowerCased(pattern))}

SeqRange(s) == {s[i] : i \in 1..Len(s)}

\* C18: searchFiles never rejects; an unreadable subdirectory only removes
\* its own branch, and a root that is missing, unreadable or rejected by
\* validation gives the empty sequence.
C18_SearchNeverRejects ==
    call.op = "searchFiles" =>
        /\ result.status = "ok"
        /\ (CallRootRejected \/ FsReaddir(fs, CallRoot) # "ok") => result.value = <<>>
        /\ ~CallRootRejected =>
              WalkedMatches(fs, CallRoot, call.pattern) \subseteq SeqRange(result.value)

\* a search met a subdirectory it could not read and still returned matches
C18_Witness ==
    /\ call.op = "searchFiles"
    /\ ~CallRootRejected
    /\ \E d \in fs.dirs \cap fs.unreadable :
          IsDescendantOrSelf(d, CallRoot) /\ d # CallRoot
    /\ result.status = "ok"
    /\ result.value # <<>>

\* C19: searchFiles returns exactly the regular files of the walked tree
\* whose name contains the pattern literally after lower-casing both, each
\* once; patterns that differ only in letter case give the same sequence.
C19_SearchLiteralCaseInsensitive ==
    (call.op = "searchFiles" /\ ~CallRootRejected) =>
        /\ SeqRange(result.value) = WalkedMatches(fs, CallRoot, call.pattern)
        /\ Len(result.value) = Cardinality(SeqRange(result.value))
        /\ \A q \in Patterns :
              LowerCased(q) = LowerCased(call.pattern) =>
                  searchFiles(fs, call.path, q).value = result.value

\* an upper-case pattern found a file, one of them with an upper-case name
C19_Witness ==
    /\ call.op = "searchFiles"
    /\ LowerCased(call.pattern) # call.pattern
    /\ \E i \in 1..Len(result.value) :
          LET name == result.value[i][Len(result.value[i])]
          IN LowerCased(name) # name
    /\ \E i \in 1..Len(result.value) :
          LET name == result.value[i][Len(result.value[i])]
          IN LowerCased(name) = name

\* the filesystem's own classification of a node
Classification(f, p) ==
    IF p \in f.dirs THEN "directory" ELSE IF p \in f.files THEN "file" ELSE "other"

\* the immediate children of a directory
Children(f, dir) ==
    {p \in f.dirs \cup f.files \cup f.others :
        Len(p) = Len(dir) + 1 /\ SubSeq(p, 1, Len(dir)) = dir}

\* C20: listDirectory of a readable directory returns one entry per
\* immediate child, the names readdir reports, each typed as the
\* filesystem classifies the child: directory, regular file, or neither.
C20_ListDirectoryClassifies ==
    (call.op = "listDirectory" /\ result.status = "ok") =>
        /\ Len(result.value) = Cardinality(Children(fs, CallRoot))
        /\ {result.value[i].name : i \in 1..Len(result.value)}
              = {p[Len(p)] : p \in Children(fs, CallRoot)}
        /\ \A i \in 1..Len(result.value) :
              result.value[i].type
                  = Classification(fs, Append(CallRoot, result.value[i].name))

(***************************************************************************)
(* The hardened library with several calls in flight.  An async function   *)
(* runs without interruption from one completed filesystem request to the  *)
(* next request it awaits; the requests of different calls complete in any *)
(* order.                                                                   *)
(***************************************************************************)
Task(op, p, pattern) ==
    [op |-> op, path |-> p, pattern |-> pattern, pc |-> "new",
     resolved |-> <<>>, work |-> <<>>, results |-> <<>>,
     status |-> "none", value |-> <<>>]

\* the call's promise settles: fulfilled ("ok") or rejected with an error
Settled(t, status, value) ==
    [t EXCEPT !.pc = "done", !.status = status, !.value = value, !.work = <<>>]

\* from the call to its first await: path validation
issue(t) ==
    LET Validated(v) ==
            IF v.threw
            THEN IF t.op = "searchFiles" THEN Settled(t, "ok", <<>>)
                 ELSE Settled(t, AccessDenied, <<>>)
            ELSE IF t.op = "searchFiles"
                 THEN [t EXCEPT !.resolved = v.path, !.pc = "readdir",
                                !.work = <<[dir |-> TRUE, path |-> v.path]>>]
                 ELSE [t EXCEPT !.resolved = v.path, !.pc = "access"]
    IN Validated(validatePath(IF t.op = "readFileContent" THEN t.path
                              ELSE OrApiResources(t.path)))

\* readFileContent after access, then after readFile
resumeReadFileContent(f, t) ==
    IF t.pc = "access"
    THEN IF FsAccess(f, t.resolved) # "ok"
         THEN Settled(t, FsAccess(f, t.resolved), <<>>)
         ELSE [t EXCEPT !.pc = "readFile"]
    ELSE IF FsReadFile(f, t.resolved) # "ok"
         THEN Settled(t, FsReadFile(f, t.resolved), <<>>)
         ELSE Settled(t, "ok", [content |-> t.resolved])

\* entries.map(...) of listDirectory
listEntries(f, dir) ==
    LET Mapped(names) == [i \in 1..Len(names) |-> ListEntry(f, dir, names[i])]
    IN Mapped(DirEntries(f, dir))

\* listDirectory after access, then after readdir
resumeListDirectory(f, t) ==
    IF t.pc = "access"
    THEN IF FsAccess(f, t.resolved) # "ok"
         THEN Settled(t, FsAccess(f, t.resolved), <<>>)
         ELSE [t EXCEPT !.pc = "readdir"]
    ELSE IF FsReaddir(f, t.resolved) # "ok"
         THEN Settled(t, FsReaddir(f, t.resolved), <<>>)
         ELSE Settled(t, "ok", listEntries(f, t.resolved))

\* the analysis object analyzeFolder builds from the listing
analysisOf(resolvedPath, items) ==
    LET fileIdx == {i \in 1..Len(items) : items[i].type = "file"}
        dirIdx == {i \in 1..Len(items) : items[i].type = "directory"}
        exts == {ExtKey(items[i].name) : i \in fileIdx}
    IN [path |-> resolvedPath,
        totalItems |-> Len(items),
        files |-> Cardinality(fileIdx),
        directories |-> Cardinality(dirIdx),
        fileTypes |-> [e \in exts |->
            Cardinality({i \in fileIdx : ExtKey(items[i].name) = e})],
        structure |-> items]

\* analyzeFolder after access, after stat, and after the access and the
\* readdir of the listDirectory call it awaits
resumeAnalyzeFolder(f, t) ==
    IF t.pc = "access"
    THEN IF FsAccess(f, t.resolved) # "ok"
         THEN Settled(t, FsAccess(f, t.resolved), <<>>)
         ELSE [t EXCEPT !.pc = "stat"]
    ELSE IF t.pc = "stat"
    THEN IF FsStat(f, t.resolved) # "ok"
         THEN Settled(t, FsStat(f, t.resolved), <<>>)
         ELSE IF ~EntryIsDirectory(f, t.resolved)
         THEN Settled(t, "not a directory", <<>>)
         ELSE IF validatePath(OrApiResources(PathStr(t.resolved))).threw
         THEN Settled(t, AccessDenied, <<>>)
         ELSE [t EXCEPT !.pc = "listAccess"]
    ELSE IF t.pc = "listAccess"
    THEN IF FsAccess(f, t.resolved) # "ok"
         THEN Settled(t, FsAccess(f, t.resolved), <<>>)
         ELSE [t EXCEPT !.pc = "listReaddir"]
    ELSE IF FsReaddir(f, t.resolved) # "ok"
         THEN Settled(t, FsReaddir(f, t.resolved), <<>>)
         ELSE Settled(t, "ok", analysisOf(t.resolved, listEntries(f, t.resolved)))

\* what the loop of search does with the entries of one directory, in
\* order: a directory that is not hidden is searched, a matching regular
\* file is pushed, anything else is passed over
searchItems(f, dir, pattern) ==
    LET Item(entryPath) == [dir |-> EntryIsDirectory(f, entryPath), path |-> entryPath]
        Wanted(name) ==
            \/ EntryIsDirectory(f, PathJoin(dir, name)) /\ ~StartsWith(name, S_dot)
            \/ /\ ~EntryIsDirectory(f, PathJoin(dir, name))
               /\ EntryIsFile(f, PathJoin(dir, name))
               /\ Includes(ToLowerCase(name), ToLowerCase(pattern))
        Items(names) == [i \in 1..Len(names) |-> Item(PathJoin(dir, names[i]))]
    IN Items(SelectSeq(DirEntries(f, dir), Wanted))

\* the files the loops push before the next directory is read
RECURSIVE LeadingFiles(_)
LeadingFiles(work) ==
    IF work = <<>> \/ work[1].dir THEN <<>>
    ELSE <<work[1].path>> \o LeadingFiles(Tail(work))

\* one array for every searchFiles call
pushResultsShared(ts, i, found) ==
    [j \in DOMAIN ts |->
        IF ts[j].op = "searchFiles" THEN [ts[j] EXCEPT !.results = @ \o found]
        ELSE ts[j]]

\* results.push(entryPath) on the array the call created
pushResults(ts, i, found) == [ts EXCEPT ![i].results = @ \o found]

\* searchFiles after one readdir: the failure of the directory is dropped,
\* its entries are handled up to the next directory to read, and the call
\* returns its array when no directory is left
resumeSearchFiles(f, ts, i) ==
    LET Finished(t, rest) ==
            IF rest = <<>> THEN Settled(t, "ok", t.results)
            ELSE [t EXCEPT !.work = rest]
        Pushed(us, rest) == [us EXCEPT ![i] = Finished(us[i], rest)]
        Continue(work, found) ==
            Pushed(pushResults(ts, i, found),
                   SubSeq(work, Len(found) + 1, Len(work)))
        Read(work) == Continue(work, LeadingFiles(work))
        dir == ts[i].work[1].path
    IN Read((IF FsReaddir(f, dir) = "ok" THEN searchItems(f, dir, ts[i].pattern)
             ELSE <<>>) \o Tail(ts[i].work))

\* the calls issued together: the test's four and a second search
ConcurrentFiles == {S_api \o <<Slash>> \o S_resume, S_api \o <<Slash>> \o S_passwd}
ConcurrentDirs == {S_api, S_api \o <<Slash>> \o S_docs}
FirstPatterns == {<<"m","d">>, <<>>}
SecondPatterns == {<<"r","e","s">>, <<"M","D">>}

InitConcurrent ==
    /\ fs \in {FsShadow, FsLocked, FsMixed}
    /\ env = EnvUnset
    /\ call = NoCall
    /\ result = NoResult
    /\ touched = {}
    /\ upstream = 0
    /\ cli = NoCli
    /\ tasks = NoTasks
    /\ digest = NoDigest
    /\ ui = NoUi

\* const operations = [readFileContent(..), listDirectory(..), ...]: each
\* call runs to its first await before the next is made
IssueTogether ==
    /\ tasks = NoTasks
    /\ \E file \in ConcurrentFiles, dir \in ConcurrentDirs,
          p1 \in FirstPatterns, p2 \in SecondPatterns :
        tasks' = <<issue(Task("readFileContent", file, <<>>)),
                   issue(Task("listDirectory", dir, <<>>)),
                   issue(Task("searchFiles", dir, p1)),
                   issue(Task("analyzeFolder", dir, <<>>)),
                   issue(Task("searchFiles", dir, p2))>>
    /\ UNCHANGED <<fs, env, call, result, touched, upstream, cli, digest, ui>>

Suspended(i, op) == tasks[i].op = op /\ tasks[i].pc # "done"

ResumeReadFileContent ==
    /\ \E i \in DOMAIN tasks :
        /\ Suspended(i, "readFileContent")
        /\ tasks' = [tasks EXCEPT ![i] = resumeReadFileContent(fs, @)]
    /\ UNCHANGED <<fs, env, call, result, touched, upstream, cli, digest, ui>>

ResumeListDirectory ==
    /\ \E i \in DOMAIN tasks :
        /\ Suspended(i, "listDirectory")
        /\ tasks' = [tasks EXCEPT ![i] = resumeListDirectory(fs, @)]
    /\ UNCHANGED <<fs, env, call, result, touched, upstream, cli, digest, ui>>

ResumeSearchFiles ==
    /\ \E i \in DOMAIN tasks :
        /\ Suspended(i, "searchFiles")
        /\ tasks' = resumeSearchFiles(fs, tasks, i)
    /\ UNCHANGED <<fs, env, call, result, touched, upstream, cli, digest, ui>>

ResumeAnalyzeFolder ==
    /\ \E i \in DOMAIN tasks :
        /\ Suspended(i, "analyzeFolder")
        /\ tasks' = [tasks EXCEPT ![i] = resumeAnalyzeFolder(fs, @)]
    /\ UNCHANGED <<fs, env, call, result, touched, upstream, cli, digest, ui>>

NextConcurrent ==
    \/ IssueTogether
    \/ ResumeReadFileContent
    \/ ResumeListDirectory
    \/ ResumeSearchFiles
    \/ ResumeAnalyzeFolder

SpecConcurrent == InitConcurrent /\ [][NextConcurrent]_vars

\* what the call returns or throws when it is the only one running
RunAlone(f, t) ==
    IF t.op = "readFileContent" THEN readFileContent(f, t.path)
    ELSE IF t.op = "listDirectory" THEN listDirectory(f, t.path)
    ELSE IF t.op = "searchFiles" THEN searchFiles(f, t.path, t.pattern)
    ELSE analyzeFolder(f, t.path)

\* the call's target is there and readable as what the call needs
TargetReadable(f, t) ==
    LET p == PathResolve(t.path)
    IN IF t.op = "readFileContent" THEN p \in f.files \ f.unreadable
       ELSE p \in f.dirs \ f.unreadable

AllSettled == tasks # NoTasks /\ \A i \in DOMAIN tasks : tasks[i].pc = "done"

\* C15: calls issued together on an unchanged tree each settle, under every
\* order in which their filesystem requests complete, exactly as the call
\* settles when run alone, and successfully when the target is readable;
\* no call's outcome holds anything another call wrote.
C15_ConcurrentAsAlone ==
    \A i \in DOMAIN tasks :
        \A alone \in {RunAlone(fs, tasks[i])} :
            /\ tasks[i].pc = "done" =>
                  /\ tasks[i].status = alone.status
                  /\ tasks[i].status = "ok" => tasks[i].value = alone.value
                  /\ TargetReadable(fs, tasks[i]) => tasks[i].status = "ok"
            /\ tasks[i].op = "searchFiles" =>
                  \A k \in 1..Len(tasks[i].results) :
                      tasks[i].results[k] \in SeqRange(alone.value)

\* the second search has returned its matches while the first, holding
\* some matches of its own, and analyzeFolder are still suspended
C15_Witness ==
    /\ tasks # NoTasks
    /\ tasks[5].pc = "done" /\ tasks[5].value # <<>>
    /\ tasks[3].pc = "readdir" /\ tasks[3].results # <<>>
    /\ tasks[3].results # tasks[5].value
    /\ tasks[4].pc = "listReaddir"
    /\ tasks[1].pc = "done" /\ tasks[1].status = "ok"

(***************************************************************************)
(* Claims about analyzeFolder of the library.                               *)
(***************************************************************************)
\* the regular files among the immediate children of a directory
ChildFiles(f, dir) == Children(f, dir) \cap f.files

\* the extension keys of a set of paths, each with the number of paths
\* that carry it
ExtensionCounts(paths) ==
    [e \in {ExtKey(p[Len(p)]) : p \in paths} |->
        Cardinality({p \in paths : ExtKey(p[Len(p)]) = e})]

\* C21: analyzeFolder of a readable directory in the jail counts the
\* immediate children only: totalItems all of them, files the regular
\* files, directories the directories, fileTypes the regular files by
\* lower-cased extension.
C21_AnalyzeFolderCounts ==
    (call.op = "analyzeFolder" /\ result.status = "ok") =>
        /\ result.value.totalItems = Cardinality(Children(fs, CallRoot))
        /\ result.value.files = Cardinality(ChildFiles(fs, CallRoot))
        /\ result.value.directories = Cardinality(Children(fs, CallRoot) \cap fs.dirs)
        /\ result.value.fileTypes = ExtensionCounts(ChildFiles(fs, CallRoot))

(***************************************************************************)
(* Claims about the analyze_folder walk.                                    *)
(***************************************************************************)
\* the directories and regular files at most n levels below root (root's
\* children are level 1) that lie in no unreadable directory and in no
\* directory below root named '.…' or 'node_modules'
WithinLevels(f, root, n) ==
    {p \in f.dirs \cup f.files :
        /\ IsDescendantOrSelf(p, root)
        /\ Len(p) - Len(root) \in 1..n
        /\ \A k \in Len(root)..(Len(p) - 1) : FsReaddir(f, SubSeq(p, 1, k)) = "ok"
        /\ \A k \in (Len(root) + 1)..(Len(p) - 1) :
              ~IsHiddenName(p[k]) /\ p[k] # S_nodeModules}

\* the summary counts and lists exactly the entries within n levels, each
\* once and at its own level
CountsWithin(summary, f, root, n) ==
    /\ summary.totalFiles = Cardinality(WithinLevels(f, root, n) \cap f.files)
    /\ summary.totalDirectories = Cardinality(WithinLevels(f, root, n) \cap f.dirs)
    /\ Len(summary.structure) + summary.more = Cardinality(WithinLevels(f, root, n))
    /\ \A i \in 1..Len(summary.structure) : summary.structure[i].depth < n
    /\ \A p \in WithinLevels(f, root, n) :
          summary.more = 0 =>
              \E i \in 1..Len(summary.structure) :
                  /\ summary.structure[i].name = p[Len(p)]
                  /\ summary.structure[i].depth = Len(p) - Len(root) - 1
                  /\ summary.structure[i].kind = IF p \in f.dirs THEN "dir" ELSE "file"

\* the analyze_folder tool answered with a summary
AnalyzedFolder ==
    /\ call.op = "analyze_folder"
    /\ ~result.rejected
    /\ result.content[1].text[1] = "Folder Analysis: "

\* C22: analyze_folder counts and lists no entry more than 3 levels below
\* the root, and never the contents of a '.…' or node_modules directory,
\* which itself is counted and listed once.
C22_AnalyzeDepthCap ==
    AnalyzedFolder =>
        CountsWithin(result.content[1].text[3], fs, PathResolve(call.path), 3)

\* C22 as the walk goes: directories are entered down to level 3, so
\* entries are counted and listed down to level 4 and no deeper; the
\* contents of a '.…' or node_modules directory are never counted or
\* listed, the directory itself once.
C22_AnalyzeDepthCapAmended ==
    AnalyzedFolder =>
        CountsWithin(result.content[1].text[3], fs, PathResolve(call.path), 4)

\* a walk from a root that has a file 5 levels down, a hidden directory and
\* a node_modules directory below it
C22_Witness ==
    /\ AnalyzedFolder
    /\ \E p \in fs.files :
          /\ IsDescendantOrSelf(p, PathResolve(call.path))
          /\ Len(p) - Len(PathResolve(call.path)) = 5
          /\ \A k \in 1..(Len(p) - 1) : ~IsHiddenName(p[k]) /\ p[k] # S_nodeModules
    /\ \E d \in fs.dirs :
          /\ d # <<>>
          /\ IsDescendantOrSelf(d, PathResolve(call.path))
          /\ IsHiddenName(d[Len(d)])
          /\ \E q \in fs.files : SubSeq(q, 1, Len(q) - 1) = d
    /\ result.content[1].text[3].totalFiles > 0

(***************************************************************************)
(* Claims about the truncation patch of the adapter's chat handling.        *)
(***************************************************************************)
\* the upstream call succeeded and its text went through the patch
ChatAnswered ==
    /\ call.op \in {"adapter.chat", "adapter.evaluate"}
    /\ ChatReachesUpstream
    /\ call.up.kind = "ok"

\* the text the handler takes from the upstream response
UpstreamText == IF call.up.text = <<>> THEN S_noResponse ELSE call.up.text

\* the text ends, trailing whitespace ignored, in a letter, a dash or a
\* comma, colon or semicolon, or its last character is none of '.', '!',
\* '?' while it nowhere says 'More details?'
LooksCutOff(text) ==
    \/ /\ TrimRight(text) # <<>>
       /\ \/ LowerChar(TrimRight(text)[Len(TrimRight(text))]) \in Letters
          \/ TrimRight(text)[Len(TrimRight(text))] \in {"-", ",", ":", ";"}
    \/ /\ text[Len(text)] \notin {".", "!", "?"}
       /\ ~Includes(text, S_moreDetails)

\* the answer's text and flag are those of a patched (unpatched) reply
AnsweredPatched(patched) ==
    /\ result.status = 200
    /\ result.body.hasTruncated
    /\ result.body.truncated = patched
    /\ (result.body.response # UpstreamText) = patched
    /\ patched => /\ Len(result.body.response) = Len(TrimRight(UpstreamText)) + 2
                  /\ SubSeq(result.body.response, 1, Len(TrimRight(UpstreamText)))
                        = TrimRight(UpstreamText)

\* C23: the upstream text is patched exactly when it looks cut off, is
\* returned unchanged otherwise, and truncated tells which.
C23_PatchedWhenCutOff ==
    ChatAnswered => AnsweredPatched(LooksCutOff(UpstreamText))

\* C23 with the length test of the code: the upstream text is patched
\* exactly when it is longer than 30 characters and looks cut off, is
\* returned unchanged otherwise, and truncated tells which.
C23_PatchedWhenCutOffAmended ==
    ChatAnswered => AnsweredPatched(Len(UpstreamText) > 30 /\ LooksCutOff(UpstreamText))

\* a reply of more than 30 characters ending in a letter and whitespace was
\* patched and flagged
C23_Witness ==
    /\ ChatAnswered
    /\ Len(UpstreamText) > 30
    /\ TrimRight(UpstreamText) # UpstreamText
    /\ result.body.truncated
    /\ result.body.response # UpstreamText

(***************************************************************************)
(* The batch operations of the hardened library: summarizeAllFiles,         *)
(* analyzeFileSubjects (all files) and extractKeyInformation.  Texts are    *)
(* kept by their length in characters; one loop iteration (one file read)   *)
(* is one step.  The listing is what validatePath and listDirectory gave:   *)
(* a number of files with names of one length.                              *)
(***************************************************************************)
\* `const MAX_TOTAL_CHARS = 8000`
MAX_TOTAL_CHARS == 8000
\* `Math.min(500, remainingSpace - 200)`
MaxContentPerFile == 500
ReservedForMetadata == 200
\* `maxContentForThisFile > 100`
MinContentSpace == 100
\* `const MAX_ANALYSIS_CHARS = 6000`
MAX_ANALYSIS_CHARS == 6000
\* `files.slice(0, 5)`
SubjectFilesLimit == 5
\* `.substring(0, 200)` of the subject preview
SubjectPreviewLimit == 200

\* the most files a listing holds
MaxFiles == 10
\* the files of a listing: none, some, more than analyzeFileSubjects shows,
\* and as many as the model allows
Counts == {0, 2, SubjectFilesLimit + 1, MaxFiles}
\* the length of every file name of the listing, extension included: a
\* short name and the longest a filesystem allows
NameLens == {9, 255}
\* String(n).length
Digits(n) == IF n < 10 THEN 1 ELSE IF n < 100 THEN 2 ELSE IF n < 1000 THEN 3 ELSE 4

Min(a, b) == IF a < b THEN a ELSE b

\* what reading a file gives: a short text of one line, a long text of many
\* lines, a '.json' file that does not parse, or a failure (EACCES)
FileKinds(op) ==
    IF op = "extractKeyInformation" THEN {"long", "badjson", "unreadable"}
    ELSE {"short", "long", "unreadable"}

\* content.length and the number of lines of a readable file
ContentLen(kind) == IF kind = "long" THEN 3000 ELSE 120
ContentLines(kind) == IF kind = "long" THEN 40 ELSE 1

\* error.message of the failed read:
\* `EACCES: permission denied, open '/app/api-resources/<name>'`
ReadErrorLen(nameLen) == 33 + 19 + nameLen + 1

DigestOps == {"summarizeAllFiles", "analyzeFileSubjects", "extractKeyInformation"}

\* the text before the loop; basename(resolvedPath) is 'api-resources'
HeaderLen(op, count) ==
    IF op = "summarizeAllFiles" THEN 29 + Len(S_api) + 19 + Digits(count)
    ELSE IF op = "analyzeFileSubjects" THEN 35 + 43 + Digits(count)
    ELSE 37 + 50 + Digits(count)

\* `No files found in ${resolvedPath}...`
NoFilesLen(op) ==
    IF op = "summarizeAllFiles" THEN 18 + 18
    ELSE IF op = "analyzeFileSubjects" THEN 18 + 18 + 21
    ELSE 18 + 18 + 31

\* the operation up to its loop
digestStart(op, count, nameLen) ==
    [op |-> op, count |-> count, nameLen |-> nameLen,
     pc |-> IF count = 0 THEN "done" ELSE "loop",
     index |-> 1,
     length |-> IF count = 0 THEN NoFilesLen(op) ELSE HeaderLen(op, count),
     currentLength |-> IF count = 0 THEN 0 ELSE HeaderLen(op, count),
     kinds |-> <<>>, blocks |-> <<>>, broke |-> FALSE]

\* the text after the loop
TrailerLen(op, count) ==
    IF op = "analyzeFileSubjects"
    THEN IF count > SubjectFilesLimit THEN 7 + Digits(count - SubjectFilesLimit) + 53 ELSE 0
    ELSE IF op = "extractKeyInformation" THEN 152
    ELSE 0

\* the loop ends after the last file it visits, or at a break
LoopEnd(d) ==
    IF d.op = "analyzeFileSubjects" THEN Min(d.count, SubjectFilesLimit) ELSE d.count

\* a block is appended for the file at d.index and the loop goes on, or
\* ends with the trailer
Appended(d, kind, block, added, counted) ==
    [d EXCEPT !.kinds = Append(@, kind),
              !.blocks = Append(@, block),
              !.index = @ + 1,
              !.length = @ + added
                           + IF d.index = LoopEnd(d) THEN TrailerLen(d.op, d.count) ELSE 0,
              !.currentLength = @ + counted,
              !.pc = IF d.index = LoopEnd(d) THEN "done" ELSE "loop"]

\* `break` after the note of what was left out
Broken(d, kind, note) ==
    [d EXCEPT !.kinds = Append(@, kind),
              !.length = @ + note + TrailerLen(d.op, d.count),
              !.broke = TRUE,
              !.pc = "done"]

\* the failure of a read escaping the loop: the operation rejects
fileUncaught(d, kind, added) ==
    [d EXCEPT !.kinds = Append(@, kind), !.pc = "rejected"]

\* the catch around one file: its error block is appended, currentLength is
\* left as it is, and the loop goes on
fileCaught(d, kind, added) == Appended(d, kind, "error", added, 0)

\* fileSummary.length for a readable file; its extension has three characters
FileSummaryLen(d, kind) ==
    LET maxContentForThisFile ==
            Min(MaxContentPerFile,
                (MAX_TOTAL_CHARS - d.currentLength) - ReservedForMetadata)
        contentPart ==
            IF maxContentForThisFile > MinContentSpace /\ ContentLen(kind) > 0
            THEN IF ContentLen(kind) <= maxContentForThisFile
                 THEN 21 + ContentLen(kind)
                 ELSE 23 + maxContentForThisFile
                        + 38 + Digits(ContentLen(kind)) + Digits(ContentLines(kind))
            ELSE 35
    IN (10 + d.nameLen) + (15 + Digits(ContentLen(kind))) + (9 + 3) + contentPart

\* the note of the break: the names of the files from this one on, joined
\* with ', '
RemainingNoteLen(d) ==
    69 + 23 + ((d.count - d.index + 1) * d.nameLen + 2 * (d.count - d.index)) + 1

\* one iteration of the loop of summarizeAllFiles
summarizeNext(d, kind) ==
    IF kind = "unreadable"
    THEN fileCaught(d, kind, 31 + d.nameLen + ReadErrorLen(d.nameLen) + 2)
    ELSE IF d.currentLength + FileSummaryLen(d, kind) > MAX_TOTAL_CHARS
    THEN Broken(d, kind, RemainingNoteLen(d))
    ELSE Appended(d, kind, "content", FileSummaryLen(d, kind), FileSummaryLen(d, kind))

\* one iteration of the loop of analyzeFileSubjects
subjectsNext(d, kind) ==
    IF kind = "unreadable"
    THEN fileCaught(d, kind, 30 + d.nameLen)
    ELSE Appended(d, kind, "content",
                  (10 + d.nameLen) + 34 + 4
                    + Min(ContentLen(kind), SubjectPreviewLimit)
                    + (IF ContentLen(kind) > SubjectPreviewLimit THEN 3 ELSE 0) + 6,
                  0)

\* fileAnalysis.length: a text file with five key lines of 80 characters,
\* or a '.json' file that JSON.parse rejects
FileAnalysisLen(d, kind) ==
    IF kind = "badjson" THEN (10 + d.nameLen) + 32 + 1
    ELSE (10 + d.nameLen) + (24 + 3) + (12 + Digits(ContentLines(kind)))
           + 15 + 5 * (5 + 80) + 1

\* one iteration of the loop of extractKeyInformation
keyInformationNext(d, kind) ==
    IF kind = "unreadable"
    THEN fileCaught(d, kind, 27 + d.nameLen)
    ELSE IF d.currentLength + FileAnalysisLen(d, kind) > MAX_ANALYSIS_CHARS
    THEN Broken(d, kind, 71)
    ELSE Appended(d, kind, IF kind = "badjson" THEN "invalid" ELSE "content",
                  FileAnalysisLen(d, kind), FileAnalysisLen(d, kind))

InitDigest ==
    /\ fs = FsBase
    /\ env = EnvUnset
    /\ call = NoCall
    /\ result = NoResult
    /\ touched = {}
    /\ upstream = 0
    /\ cli = NoCli
    /\ tasks = NoTasks
    /\ digest = NoDigest
    /\ ui = NoUi

DigestBegin ==
    /\ digest = NoDigest
    /\ \E op \in DigestOps, count \in Counts, nameLen \in NameLens :
        digest' = digestStart(op, count, nameLen)
    /\ UNCHANGED <<fs, env, call, result, touched, upstream, cli, tasks, ui>>

Looping(op) == digest.pc = "loop" /\ digest.op = op

SummarizeNextFile ==
    /\ Looping("summarizeAllFiles")
    /\ \E kind \in FileKinds(digest.op) : digest' = summarizeNext(digest, kind)
    /\ UNCHANGED <<fs, env, call, result, touched, upstream, cli, tasks, ui>>

SubjectsNextFile ==
    /\ Looping("analyzeFileSubjects")
    /\ \E kind \in FileKinds(digest.op) : digest' = subjectsNext(digest, kind)
    /\ UNCHANGED <<fs, env, call, result, touched, upstream, cli, tasks, ui>>

KeyInformationNextFile ==
    /\ Looping("extractKeyInformation")
    /\ \E kind \in FileKinds(digest.op) : digest' = keyInformationNext(digest, kind)
    /\ UNCHANGED <<fs, env, call, result, touched, upstream, cli, tasks, ui>>

NextDigest ==
    \/ DigestBegin
    \/ SummarizeNextFile
    \/ SubjectsNextFile
    \/ KeyInformationNextFile

SpecDigest == InitDigest /\ [][NextDigest]_vars

\* C24: the text summarizeAllFiles builds never exceeds 8000 characters.
C24_SummaryWithinBudget ==
    (digest.pc # "none" /\ digest.op = "summarizeAllFiles") =>
        digest.length <= 8000

\* the file at index i of the listing failed to read or to parse
FailedAt(d, i) == i <= Len(d.kinds) /\ d.kinds[i] \in {"unreadable", "badjson"}

\* the text has a block that names the file at index i and reports its failure
ErrorBlockFor(d, i) == i <= Len(d.blocks) /\ d.blocks[i] \in {"error", "invalid"}

\* every file from index i + 1 to index last has its block, unless the
\* character budget ended the loop
FollowingReported(d, i, last) ==
    \A j \in (i + 1)..last : j <= Len(d.blocks) \/ d.broke

\* C25: when one file fails in summarizeAllFiles, analyzeFileSubjects or
\* extractKeyInformation, the operation still resolves, its text has an
\* error block naming the failed file, and every file after it in the
\* listing is still processed and reported, unless the character budget
\* ended the loop.
C25_FailureIsolated ==
    /\ digest.pc # "rejected"
    /\ digest.pc = "done" =>
        \A i \in 1..digest.count :
            FailedAt(digest, i) =>
                /\ ErrorBlockFor(digest, i)
                /\ FollowingReported(digest, i, digest.count)

\* C25 (amended): the operation still resolves; the text has an error block
\* naming the failed file unless the failure was invalid JSON in the file at
\* which the character budget ended the loop; and every file after it that
\* the operation visits (the first five of the listing in
\* analyzeFileSubjects, all of them otherwise) is still processed and
\* reported, unless the character budget ended the loop.
C25_FailureIsolatedAmended ==
    /\ digest.pc # "rejected"
    /\ digest.pc = "done" =>
        \A i \in 1..digest.count :
            FailedAt(digest, i) =>
                /\ \/ ErrorBlockFor(digest, i)
                   \/ /\ digest.broke
                      /\ i = Len(digest.kinds)
                      /\ digest.kinds[i] = "badjson"
                /\ FollowingReported(digest, i,
                       IF digest.op = "analyzeFileSubjects"
                       THEN IF digest.count < 5 THEN digest.count ELSE 5
                       ELSE digest.count)

\* a file failed, its error block is in the text, and the file after it was
\* read and reported
C25_Witness ==
    /\ digest.pc = "done"
    /\ \E i \in 1..(Len(digest.blocks) - 1) :
        /\ digest.kinds[i] = "unreadable"
        /\ digest.blocks[i] = "error"
        /\ digest.blocks[i + 1] = "content"

\* the word w stands in the lower-cased text at position i, with no letter
\* before it and none after it
WordAt(lower, w, i) ==
    /\ i + Len(w) - 1 <= Len(lower)
    /\ SubSeq(lower, i, i + Len(w) - 1) = w
    /\ i > 1 => lower[i - 1] \notin Letters
    /\ i + Len(w) <= Len(lower) => lower[i + Len(w)] \notin Letters

HasWord(lower, w) == \E i \in 1..Len(lower) : WordAt(lower, w, i)

\* the message is a greeting: hello, hi or hey is one of its words
IsGreeting(message) ==
    \E w \in {S_hello, S_hi, S_hey} : HasWord(LowerCased(message), w)

\* a mock chat has produced its reply
MockReplied ==
    /\ cli.pc = "return"
    /\ cli.client = "claude"
    /\ cli.useMockApi

\* the names of the executed calls, in the order of their execution
ExecutedNames == [i \in 1..Len(cli.order) |-> cli.calls[cli.order[i]].name]

\* C26: in mock mode the reply is the introduction when the message is a
\* greeting (hello, hi or hey as a word); otherwise, when at least one tool
\* call was executed, the analysis with one section per executed call in the
\* order of execution; otherwise a fixed text, which is the menu for 'help'.
C26_MockReplyChoice ==
    MockReplied =>
        IF IsGreeting(cli.line)
        THEN cli.reply.text = <<"greeting">>
        ELSE IF Len(cli.order) > 0
        THEN cli.reply.text = <<"analysis">> \o ExecutedNames
        ELSE /\ cli.reply.text \in {<<"suggestion">>, <<"help">>}
             /\ cli.line = <<"h", "e", "l", "p">> => cli.reply.text = <<"help">>

(***************************************************************************)
(* The browser UI (script of the page): processNaturalLanguageCommand, the  *)
(* chat box and the tool buttons.  Every operation of the page runs up to   *)
(* its next await in one step; a response resumes it.                       *)
(***************************************************************************)
\* the most operations a page starts
MaxRequests == 3

\* the start of the token captured by the first alternative that matches at
\* the leftmost position, 0 without a match
RECURSIVE CaptureStart(_, _, _, _)
CaptureStart(s, i, alts, kind) ==
    IF i > Len(s) THEN 0
    ELSE IF FirstAlt(s, i, alts, kind) = <<>> THEN CaptureStart(s, i + 1, alts, kind)
    ELSE LET Hit(ws) == WordsEnd(s, i, ws) # 0 /\ CaptureAt(s, i, ws, kind) # <<>>
             k == CHOOSE n \in 1..Len(alts) :
                      Hit(alts[n]) /\ \A m \in 1..(n - 1) : ~Hit(alts[m])
         IN WordsEnd(s, i, alts[k])

\* message.match(/read|show|open\s+([^\s]+)/i): whether it matched and its
\* group 1, which only the third alternative captures
RECURSIVE readShowOpen(_, _)
readShowOpen(s, i) ==
    LET At(word) == i + Len(word) - 1 <= Len(s)
                      /\ ToLowerCase(SubSeq(s, i, i + Len(word) - 1)) = word
        opened == CaptureAt(s, i, <<<<"o", "p", "e", "n">>>>, "token")
    IN IF i > Len(s) THEN [matched |-> FALSE, group |-> Absent]
       ELSE IF At(<<"r", "e", "a", "d">>) \/ At(<<"s", "h", "o", "w">>) THEN [matched |-> TRUE, group |-> Absent]
       ELSE IF opened # <<>> THEN [matched |-> TRUE, group |-> Str(opened)]
       ELSE readShowOpen(s, i + 1)

\* group 2 of the search expression, `(?:\s+in\s+([a-zA-Z0-9\/\.\-_]+))?`,
\* from the end e of group 1
SearchRoot(s, e) ==
    IF SpacesEnd(s, e) > e THEN CaptureAt(s, SpacesEnd(s, e), <<<<"i", "n">>>>, "path")
    ELSE <<>>

\* `if (path === '.' || path === '') ...; else if
\* (!path.startsWith('api-resources')) path = `api-resources/${path}``
WithinApiResources(path) ==
    IF path = S_dot \/ path = <<>> THEN S_api
    ELSE IF ~StartsWith(path, S_api) THEN S_apiSlash \o path
    ELSE path

\* path.includes('.') && path.match(/\.[a-zA-Z0-9]+$/)
HasExtension(path) ==
    \E i \in 1..(Len(path) - 1) :
        /\ path[i] = "."
        /\ \A j \in (i + 1)..Len(path) : IsWordChar(path[j]) /\ path[j] # "_"

NlpAction(action, path, pattern) ==
    [action |-> action, path |-> path, pattern |-> pattern]

\* { response: ... }
NlpResponse == NlpAction("none", Absent, Absent)

StopWords ==
    {<<"t", "h", "e">>, <<"a">>, <<"a", "n">>, <<"t", "h", "i", "s">>, <<"t", "h", "a", "t">>, <<"c", "u", "r", "r", "e", "n", "t">>, <<"f", "i", "l", "e", "s">>,
     <<"d", "i", "r", "e", "c", "t", "o", "r", "y">>, <<"f", "o", "l", "d", "e", "r">>}

processNaturalLanguageCommand(message) ==
    LET lower == ToLowerCase(message)
        dirMatch == RegexCapture(message,
                        <<<<<<"i", "n">>, <<"t", "h", "e">>>>, <<<<"i", "n">>>>,
                          <<<<"f", "r", "o", "m">>, <<"t", "h", "e">>>>, <<<<"f", "r", "o", "m">>>>>>, "path")
        listed ==
            IF Has(lower, S_api) \/ Has(lower, <<"a", "p", "i", " ", "r", "e", "s", "o", "u", "r", "c", "e", "s">>) THEN S_api
            ELSE IF Has(lower, <<"c", "u", "r", "r", "e", "n", "t", " ", "d", "i", "r", "e", "c", "t", "o", "r", "y">>) \/ Has(lower, <<"c", "u", "r", "r", "e", "n", "t", " ", "f", "o", "l", "d", "e", "r">>)
                      \/ Has(lower, <<"t", "h", "i", "s", " ", "d", "i", "r", "e", "c", "t", "o", "r", "y">>)
            THEN S_api
            ELSE IF dirMatch # <<>> /\ ToLowerCase(dirMatch) \notin StopWords
            THEN IF StartsWith(dirMatch, S_api) THEN dirMatch ELSE S_apiSlash \o dirMatch
            ELSE S_api
        fileMatch == readShowOpen(message, 1)
        pathMatch == RegexCapture(message, <<<<<<"l", "i", "s", "t">>>>, <<<<"l", "s">>>>>>, "path")
        searchAlts == <<<<<<"s", "e", "a", "r", "c", "h">>, <<"f", "o", "r">>>>, <<<<"s", "e", "a", "r", "c", "h">>>>,
                        <<<<"f", "i", "n", "d">>, <<"f", "o", "r">>>>, <<<<"f", "i", "n", "d">>>>>>
        searchAt == CaptureStart(message, 1, searchAlts, "token")
        searchEnd == RunEnd(message, searchAt, "token")
        searchRoot == SearchRoot(message, searchEnd)
        analyzed ==
            WithinApiResources(
                LET m == RegexCapture(message,
                             <<<<<<"a", "n", "a", "l", "y", "z", "e">>, <<"o", "f">>>>, <<<<"a", "n", "a", "l", "y", "z", "e">>>>,
                               <<<<"s", "u", "m", "m", "a", "r", "y">>, <<"o", "f">>>>, <<<<"s", "u", "m", "m", "a", "r", "y">>>>,
                               <<<<"o", "v", "e", "r", "v", "i", "e", "w">>, <<"o", "f">>>>, <<<<"o", "v", "e", "r", "v", "i", "e", "w">>>>>>, "token")
                IN IF m = <<>> THEN S_api ELSE m)
    IN IF \/ Has(lower, <<"w", "h", "a", "t">>) /\ (Has(lower, <<"f", "i", "l", "e", "s">>) \/ Has(lower, <<"i", "n">>))
          \/ Has(lower, <<"s", "h", "o", "w", " ", "m", "e">>) /\ (Has(lower, <<"f", "i", "l", "e", "s">>) \/ Has(lower, <<"c", "o", "n", "t", "e", "n", "t", "s">>))
          \/ Has(lower, <<"l", "i", "s", "t">>)
          \/ Has(lower, <<"l", "s">>)
       THEN NlpAction("list_directory", Str(listed), Absent)
       ELSE IF (Has(lower, <<"r", "e", "a", "d">>) \/ Has(lower, <<"s", "h", "o", "w">>) \/ Has(lower, <<"o", "p", "e", "n">>))
               /\ fileMatch.matched
       THEN NlpAction("read_file", fileMatch.group, Absent)
       ELSE IF (StartsWith(lower, <<"l", "i", "s", "t", " ">>) \/ StartsWith(lower, <<"l", "s", " ">>))
               /\ ~Has(lower, <<"w", "h", "a", "t">>)
       THEN NlpAction("list_directory",
                      Str(WithinApiResources(IF pathMatch = <<>> THEN S_api ELSE pathMatch)),
                      Absent)
       ELSE IF (Has(lower, <<"s", "e", "a", "r", "c", "h">>) \/ Has(lower, <<"f", "i", "n", "d">>)) /\ searchAt # 0
       THEN NlpAction("search_files",
                      Str(WithinApiResources(IF searchRoot = <<>> THEN S_api ELSE searchRoot)),
                      Str(SubSeq(message, searchAt, searchEnd - 1)))
       ELSE IF Has(lower, <<"a", "n", "a", "l", "y", "z", "e">>) \/ Has(lower, <<"s", "u", "m", "m", "a", "r", "y">>) \/ Has(lower, <<"o", "v", "e", "r", "v", "i", "e", "w">>)
       THEN NlpAction(IF HasExtension(analyzed) THEN "read_file" ELSE "analyze_folder",
                      Str(analyzed), Absent)
       ELSE NlpResponse

\* chatInput.value
ChatInputs ==
    {<<>>,
     <<" ", " ">>,
     <<"h", "e", "l", "l", "o">>,
     <<"w", "h", "a", "t", " ", "f", "i", "l", "e", "s", " ", "a", "r", "e", " ", "i", "n", " ", "d", "o", "c", "s">>,
     <<"l", "i", "s", "t", " ", "a", "p", "i", "-", "r", "e", "s", "o", "u", "r", "c", "e", "s">>,
     <<"r", "e", "a", "d", " ", "p", "a", "c", "k", "a", "g", "e", ".", "j", "s", "o", "n">>,
     <<"o", "p", "e", "n", " ", "n", "o", "t", "e", "s", ".", "m", "d">>,
     <<"s", "e", "a", "r", "c", "h", " ", "f", "o", "r", " ", "m", "d", " ", "i", "n", " ", "d", "o", "c", "s">>,
     <<"f", "i", "n", "d", " ", "m", "d", " ", "i", "n", " ", "a", "p", "i", "-", "r", "e", "s", "o", "u", "r", "c", "e", "s", "-", "o", "l", "d">>,
     <<"a", "n", "a", "l", "y", "z", "e", " ", ".">>,
     <<"o", "v", "e", "r", "v", "i", "e", "w", " ", "o", "f", " ", "d", "o", "c", "s", "/", "a", ".", "m", "d">>}

\* the value of a path field or of the pattern field of the tool panel
FieldInputs == {<<>>, <<" ">>, S_docs}

\* an operation of the page that waits for a response
Pending(op, stage, nlp) == [op |-> op, stage |-> stage, nlp |-> nlp]

Without(s, i) == SubSeq(s, 1, i - 1) \o SubSeq(s, i + 1, Len(s))

UiOpen == ui.pc = "open"

InitUi ==
    /\ fs = FsBase
    /\ env = EnvUnset
    /\ call = NoCall
    /\ result = NoResult
    /\ touched = {}
    /\ upstream = 0
    /\ cli = NoCli
    /\ tasks = NoTasks
    /\ digest = NoDigest
    /\ ui = NoUi

\* DOMContentLoaded: checkServerStatus up to its fetch
UiLoad ==
    /\ ui = NoUi
    /\ ui' = [pc |-> "open", isLoading |-> FALSE, serverStatus |-> "connecting",
              statusPending |-> TRUE, inflight |-> <<>>, started |-> 0]
    /\ UNCHANGED <<fs, env, call, result, touched, upstream, cli, tasks, digest>>

\* checkServerStatus after its fetch
UiStatusResponse ==
    /\ UiOpen
    /\ ui.statusPending
    /\ \E ok \in BOOLEAN :
        ui' = [ui EXCEPT !.statusPending = FALSE,
                         !.serverStatus = IF ok THEN "connected" ELSE "error"]
    /\ UNCHANGED <<fs, env, call, result, touched, upstream, cli, tasks, digest>>

\* showLoading() and the first request of an operation
Started(u, request) ==
    [u EXCEPT !.isLoading = TRUE,
              !.inflight = Append(@, request),
              !.started = @ + 1]

\* the `finally` of an operation: hideLoading()
Finished(u, i) ==
    [u EXCEPT !.isLoading = FALSE, !.inflight = Without(@, i)]

\* sendChatMessage up to its first fetch
sendChatMessage(u, value) ==
    LET message == Trim(value)
        Sent(nlpResult) ==
            Started(u, Pending("sendChatMessage",
                               IF nlpResult.action # "none" THEN "tool" ELSE "claude",
                               nlpResult))
    IN IF message = <<>> \/ u.isLoading THEN u
       ELSE Sent(processNaturalLanguageCommand(message))

UiSendChatMessage ==
    /\ UiOpen
    /\ ui.started < MaxRequests
    /\ \E value \in ChatInputs : ui' = sendChatMessage(ui, value)
    /\ UNCHANGED <<fs, env, call, result, touched, upstream, cli, tasks, digest>>

\* sendChatMessage after callMCPTool: on to callClaudeAPI, or the catch and
\* the finally
UiChatToolResponse ==
    /\ UiOpen
    /\ \E i \in 1..Len(ui.inflight), ok \in BOOLEAN :
        /\ ui.inflight[i].op = "sendChatMessage"
        /\ ui.inflight[i].stage = "tool"
        /\ ui' = IF ok THEN [ui EXCEPT !.inflight[i].stage = "claude"]
                 ELSE Finished(ui, i)
    /\ UNCHANGED <<fs, env, call, result, touched, upstream, cli, tasks, digest>>

\* sendChatMessage after callClaudeAPI: the reply or the catch, then the
\* finally
UiChatClaudeResponse ==
    /\ UiOpen
    /\ \E i \in 1..Len(ui.inflight) :
        /\ ui.inflight[i].op = "sendChatMessage"
        /\ ui.inflight[i].stage = "claude"
        /\ ui' = Finished(ui, i)
    /\ UNCHANGED <<fs, env, call, result, touched, upstream, cli, tasks, digest>>

\* a button operation up to its fetch: `required` fields that are empty
\* after trimming end it with 'Please enter ...'
buttonOperation(u, op, required) ==
    IF \E value \in required : Trim(value) = <<>> THEN u
    ELSE Started(u, Pending(op, "tool", NlpResponse))

UiReadFile ==
    /\ UiOpen
    /\ ui.started < MaxRequests
    /\ \E path \in FieldInputs : ui' = buttonOperation(ui, "readFile", {path})
    /\ UNCHANGED <<fs, env, call, result, touched, upstream, cli, tasks, digest>>

UiListDirectory ==
    /\ UiOpen
    /\ ui.started < MaxRequests
    /\ \E path \in FieldInputs : ui' = buttonOperation(ui, "listDirectory", {})
    /\ UNCHANGED <<fs, env, call, result, touched, upstream, cli, tasks, digest>>

UiSearchFiles ==
    /\ UiOpen
    /\ ui.started < MaxRequests
    /\ \E rootPath \in FieldInputs, pattern \in FieldInputs :
        ui' = buttonOperation(ui, "searchFiles", {pattern})
    /\ UNCHANGED <<fs, env, call, result, touched, upstream, cli, tasks, digest>>

UiAnalyzeFolder ==
    /\ UiOpen
    /\ ui.started < MaxRequests
    /\ \E path \in FieldInputs : ui' = buttonOperation(ui, "analyzeFolder", {})
    /\ UNCHANGED <<fs, env, call, result, touched, upstream, cli, tasks, digest>>

\* a button operation after callMCPTool: displayResults either way, then
\* the finally
UiButtonResponse ==
    /\ UiOpen
    /\ \E i \in 1..Len(ui.inflight) :
        /\ ui.inflight[i].op # "sendChatMessage"
        /\ ui' = Finished(ui, i)
    /\ UNCHANGED <<fs, env, call, result, touched, upstream, cli, tasks, digest>>

NextUi ==
    \/ UiLoad
    \/ UiStatusResponse
    \/ UiSendChatMessage
    \/ UiChatToolResponse
    \/ UiChatClaudeResponse
    \/ UiReadFile
    \/ UiListDirectory
    \/ UiSearchFiles
    \/ UiAnalyzeFolder
    \/ UiButtonResponse

SpecUi == InitUi /\ [][NextUi]_vars

\* the chat sends of the page that wait for a response
ChatsInFlight ==
    {i \in 1..Len(ui.inflight) : ui.inflight[i].op = "sendChatMessage"}

\* C27: for every chat message in which processNaturalLanguageCommand
\* detects an action, the path or rootPath it returns is a defined string
\* that is 'api-resources' or starts with 'api-resources/'.
C27_DetectedPathConfined ==
    UiOpen =>
        \A i \in ChatsInFlight :
            ui.inflight[i].nlp.action # "none" =>
                /\ ui.inflight[i].nlp.path.has
                /\ \/ ui.inflight[i].nlp.path.val = S_api
                   \/ StartsWith(ui.inflight[i].nlp.path.val, S_apiSlash)

\* C30: isLoading is true whenever an operation of the page waits for a
\* response, and at most one sendChatMessage waits at a time.
C30_LoadingWhileInFlight ==
    UiOpen =>
        /\ ui.inflight # <<>> => ui.isLoading
        /\ Cardinality(ChatsInFlight) <= 1

\* the path the request names: rootPath for search_files, path otherwise
ToolsTarget(body) ==
    IF body.tool = "search_files" THEN body.params.rootPath ELSE body.params.path

\* the same request with 'api-resources' as its path
ToolsAtRoot(body) ==
    IF body.tool = "search_files"
    THEN [body EXCEPT !.params.rootPath = Str(S_api)]
    ELSE [body EXCEPT !.params.path = Str(S_api)]

\* a directory request to POST /api/tools that is complete but for the value
\* of its path
DirectoryToolRequest ==
    /\ call.op = "api.tools"
    /\ call.body.hasParams
    /\ call.body.tool \in {"list_directory", "search_files", "analyze_folder"}
    /\ call.body.tool = "search_files" => ~Falsy(call.body.params.pattern)
    /\ ToolsTarget(call.body).has

\* C28: POST /api/tools answers list_directory, search_files and
\* analyze_folder for the path '.', '' or '/' as it answers them for
\* 'api-resources': status 200 and the same result.
C28_RootAliasesServed ==
    (DirectoryToolRequest
       /\ ToolsTarget(call.body).val \in {S_dot, <<>>, <<Slash>>}) =>
        \A atRoot \in {apiPostTools(fs, ToolsAtRoot(call.body))} :
            /\ result.status = atRoot.status
            /\ result.body = atRoot.body
            /\ atRoot.status = 200 => result.status = 200

\* one FileContextChat instance is in use
ChatInstance == CliRunning /\ cli.client = "claude"

\* C29: after any sequence of chat() calls on one FileContextChat instance
\* the conversation has even length, its entries alternate user, assistant,
\* its length is twice the number of chats that returned a model or mock
\* reply, and a chat that ended in an error appended nothing.
C29_ConversationAlternates ==
    ChatInstance =>
        /\ Len(cli.conversation) % 2 = 0
        /\ \A i \in 1..Len(cli.conversation) :
            cli.conversation[i] = IF i % 2 = 1 THEN "user" ELSE "assistant"
        /\ Len(cli.conversation) = 2 * cli.replied
        /\ (cli.pc = "return" /\ IsErrorReply) =>
            \A i \in 1..Len(cli.log) : cli.log[i] # "append"

\* two chats have returned on an instance that calls the model: one ended
\* in an error, the other one's two turns are in the conversation
C29_Witness ==
    /\ ChatInstance
    /\ ~cli.useMockApi
    /\ cli.turns = 2
    /\ cli.replied = 1
    /\ cli.conversation = <<"user", "assistant">>

====
